---- MODULE Spec2Model ----
(***************************************************************************)
(* Incremental image build of the portfolio site generator (build.js, kept  *)
(* in scripts/extract-images.js from line 230 on).                          *)
(*                                                                         *)
(* The model follows one checkout of the repository over several runs of   *)
(* `node build.js`.  Between two runs the operator edits the working tree  *)
(* (source images, dist/images, .image-cache.json); a run is the sequence  *)
(* of awaited steps of build().                                            *)
(***************************************************************************)
EXTENDS Integers, Sequences, FiniteSets, TLC

\* ------------------------------------------------------------------ bounds
\* Number of runs of build.js that are followed.
MaxBuilds == 2
\* Number of operator edits of the working tree that are followed.
MaxEdits == 1

\* ------------------------------------------------------- source inventory
\* Content of a source file.  Four contents are followed: three decodable
\* images (wider than the ladder, exactly on a rung, narrower than the
\* ladder) and one file that is not an image.  NoFile is a missing file.
NoFile == 0
Bytes == 1 .. 4

\* sharp(inputPath).metadata() rejects a file that is not an image.
Decodable(b) == b \in {1, 2, 3}

\* metadata.width of a decodable content.
Width(b) == CASE b = 1 -> 2000 [] b = 2 -> 800 [] b = 3 -> 300 [] OTHER -> 0

\* metadata.height of a decodable content.
Height(b) == CASE b = 1 -> 1000 [] b = 2 -> 600 [] b = 3 -> 300 [] OTHER -> 0

\* Sub-directories of projects/ that hold a project.json, in the order
\* loadProjects returns them (config.order 1, 2).
ProjectDirs == <<"p1", "p2">>

\* File names that may appear in projects/<slug>/original, already in the
\* order of localeCompare(.., {numeric: true}).
OriginalFiles(slug) == IF slug = "p1" THEN <<"a.jpg", "b.jpg">> ELSE <<"a.jpg">>

\* File names that may appear in homepage/, matching /^\d+\.(jpg|jpeg|png)$/i,
\* in the order of their numbers.  The names carry distinct numbers (README:
\* "use sequential numbers"), so no two of them share an output directory.
HomepageFiles == <<"1.jpg", "2.jpg">>

\* The two landing folders, in the order processLandingImages goes through
\* them, and the folder of each type under homepage/.
LandingTypes == <<"commercial", "personal">>

LandingFolder(type) ==
  IF type = "commercial" THEN "Commercial Home Images" ELSE "Personal Home Images"

\* File names that may appear in a landing folder, in readdir order.
LandingFiles(type) == IF type = "commercial" THEN <<"c.jpg">> ELSE <<"p.jpg">>

\* path.join(inputDir, file) for a landing folder
LandingInputPath(type, file) == "homepage/" \o LandingFolder(type) \o "/" \o file

\* parseInt(path.basename(file, path.extname(file)))
parseInt(file) == CASE file = "1.jpg" -> 1 [] file = "2.jpg" -> 2

\* path.join(CONFIG.projectsDir, slug, 'original', file)
ProjectInputPath(slug, file) == "projects/" \o slug \o "/original/" \o file

\* path.join(CONFIG.homepageDir, file)
HomepageInputPath(file) == "homepage/" \o file

\* Every source path of the inventory.
SourcePaths ==
  UNION {{ProjectInputPath(ProjectDirs[i], OriginalFiles(ProjectDirs[i])[j]) :
           j \in 1 .. Len(OriginalFiles(ProjectDirs[i]))} : i \in 1 .. Len(ProjectDirs)}
  \cup {HomepageInputPath(HomepageFiles[j]) : j \in 1 .. Len(HomepageFiles)}
  \cup UNION {{LandingInputPath(LandingTypes[t], LandingFiles(LandingTypes[t])[j]) :
                j \in 1 .. Len(LandingFiles(LandingTypes[t]))} : t \in 1 .. Len(LandingTypes)}

\* The source paths in the two landing folders.
LandingPaths ==
  UNION {{LandingInputPath(LandingTypes[t], LandingFiles(LandingTypes[t])[j]) :
           j \in 1 .. Len(LandingFiles(LandingTypes[t]))} : t \in 1 .. Len(LandingTypes)}

\* The source paths under homepage/.
HomepagePaths == SourcePaths \ 
  UNION {{ProjectInputPath(ProjectDirs[i], OriginalFiles(ProjectDirs[i])[j]) :
           j \in 1 .. Len(OriginalFiles(ProjectDirs[i]))} : i \in 1 .. Len(ProjectDirs)}

\* ---------------------------------------------------------- configuration
\* CONFIG.imageSizes
imageSizes == <<400, 800, 1200>>

\* The encodings without the first of them.
Formats_NoAvif == <<"webp", "jpg">>

\* The three encodings written per width.
Formats == <<"avif", "webp", "jpg">>

\* ------------------------------------------------------------ pure helpers
\* getFileHash: md5 digest of the whole file.  No two contents of the
\* inventory collide under md5, so the digest is one-to-one on Bytes.
getFileHash(b) == "md5-" \o ToString(b)

\* `${project.slug}/${img.file}` and `homepage/${file}`
CacheKey(collection, file) == collection \o "/" \o file

\* String(img.index).padStart(2, '0')
padStart2(n) == IF n < 10 THEN "0" \o ToString(n) ELSE ToString(n)

\* path.join(CONFIG.distDir, 'images', project.slug, <padded index>)
ProjectOutputDir(slug, index) == "dist/images/" \o slug \o "/" \o padStart2(index)

\* path.join(CONFIG.distDir, 'images', 'homepage', String(num))
HomepageOutputDir(num) == "dist/images/homepage/" \o ToString(num)

\* extractDominantColor: the colour of the 1x1 downscale, or the neutral
\* fallback when the pixels cannot be read.
extractDominantColor(b) == IF Decodable(b) THEN "#c" \o ToString(b) ELSE "#e8e8e6"

\* The blur placeholder: a data URI computed from the source pixels.
Placeholder(b) == "data:image/jpeg;base64," \o ToString(b)

\* The ladder loop with `>` for `>=`: a source exactly as wide as a rung
\* does not get that rung.
RECURSIVE GenerateSizes_Strict(_, _, _)
GenerateSizes_Strict(sizes, i, w) ==
  IF i > Len(sizes) THEN <<>>
  ELSE IF w > sizes[i] THEN <<sizes[i]>> \o GenerateSizes_Strict(sizes, i + 1, w)
       ELSE GenerateSizes_Strict(sizes, i + 1, w)

\* The loop `for (const width of sizes) if (metadata.width >= width)`:
\* the widths of the ladder, from rung i on, that are generated.
RECURSIVE GenerateSizes(_, _, _)
GenerateSizes(sizes, i, w) ==
  IF i > Len(sizes) THEN <<>>
  ELSE IF w >= sizes[i] THEN <<sizes[i]>> \o GenerateSizes(sizes, i + 1, w)
       ELSE GenerateSizes(sizes, i + 1, w)

\* Elements of a sequence.
Range(s) == {s[i] : i \in DOMAIN s}

\* The files `${width}.avif`, `${width}.webp`, `${width}.jpg` written for the
\* generated widths, each mapped to the content it was resized from.
SizeFiles(widths, b) ==
  [n \in {ToString(w) \o "." \o Formats[f] : w \in Range(widths), f \in DOMAIN Formats} |-> b]

\* needsProcessing(cacheKey, fileHash, outputDir), reading the module-level
\* imageCache (passed as cache).  outputDir is accepted and not looked at.
needsProcessing(cache, cacheKey, fileHash, outputDir) ==
  IF cacheKey \notin DOMAIN cache THEN TRUE
  ELSE IF cache[cacheKey].hash # fileHash THEN TRUE
  ELSE FALSE

\* validateImage: the warnings for one file (metadata.width < 1200, or the
\* metadata cannot be read); never throws.
validateImage(b, filename) ==
  IF ~Decodable(b) THEN {"Error reading " \o filename}
  ELSE IF Width(b) < 1200 THEN {"Warning: " \o filename \o " is too narrow"}
  ELSE {}

\* processImage without its last step: no copy of the source is left.
CopyOriginal_Skipped(b) == <<>>

\* fs.copy(inputPath, path.join(outputDir, 'original.jpg')): the file the
\* copy leaves, holding the source bytes.
CopyOriginal(b) == "original.jpg" :> b

\* processImage(inputPath, outputDir, filename): throws on a file that is not
\* an image; otherwise returns the results object and the files written
\* into outputDir (the resized encodings and original.jpg).
processImage(b) ==
  IF ~Decodable(b) THEN [throws |-> TRUE]
  ELSE LET widths == GenerateSizes(imageSizes, 1, Width(b))
       IN [throws |-> FALSE,
           results |-> [sizes |-> Range(widths),
                        placeholder |-> Placeholder(b),
                        aspectRatio |-> <<Width(b), Height(b)>>,
                        width |-> Width(b),
                        height |-> Height(b),
                        dominantColor |-> extractDominantColor(b)],
           files |-> CopyOriginal(b) @@ SizeFiles(widths, b)]

\* arr.join(', ')
RECURSIVE Join(_)
Join(strs) ==
  IF strs = <<>> THEN ""
  ELSE IF Len(strs) = 1 THEN strs[1]
  ELSE strs[1] \o ", " \o Join(Tail(strs))

\* `/images/homepage/${num}/${width}.${ext} ${width}w` for every generated width
HomepageSrcset(num, widths, ext) ==
  Join([i \in DOMAIN widths |->
          "/images/homepage/" \o ToString(num) \o "/" \o ToString(widths[i]) \o "." \o ext
            \o " " \o ToString(widths[i]) \o "w"])

\* Math.max(...sizes.filter(s => metadata.width >= s)) inside a template
\* string: the largest generated width, "-Infinity" when there is none.
MaxAvailableSize(widths) ==
  IF widths = <<>> THEN "-Infinity"
  ELSE ToString(CHOOSE w \in Range(widths) : \A v \in Range(widths) : v <= w)

\* const landingSizes (processLandingImages)
landingSizes == <<800, 1200, 1800>>

\* path.join(outputBase, type, `${type}-${i + 1}`)
LandingOutputDir(type, i) ==
  "dist/images/landing/" \o type \o "/" \o type \o "-" \o ToString(i)

\* `/images/landing/${type}/${baseName}/${width}.${ext} ${width}w` for every
\* generated width
LandingSrcset(type, i, widths, ext) ==
  Join([k \in DOMAIN widths |->
          "/images/landing/" \o type \o "/" \o type \o "-" \o ToString(i) \o "/"
            \o ToString(widths[k]) \o "." \o ext \o " " \o ToString(widths[k]) \o "w"])

\* processFolder, the try block for one file: throws on a file that is not
\* an image; otherwise the pushed result and the files written.
processLandingImage(b, type, i) ==
  IF ~Decodable(b) THEN [throws |-> TRUE]
  ELSE LET widths == GenerateSizes(landingSizes, 1, Width(b))
       IN [throws |-> FALSE,
           results |-> [src |-> "/images/landing/" \o type \o "/" \o type \o "-" \o ToString(i)
                                  \o "/" \o MaxAvailableSize(widths) \o ".jpg",
                        srcset |-> [avif |-> LandingSrcset(type, i, widths, "avif"),
                                    webp |-> LandingSrcset(type, i, widths, "webp"),
                                    jpg |-> LandingSrcset(type, i, widths, "jpg")],
                        width |-> Width(b),
                        height |-> Height(b),
                        aspectRatio |-> <<Width(b), Height(b)>>],
           files |-> SizeFiles(widths, b)]

\* The body of the try block of processHomepageImages for an image that is
\* not served from the cache: throws on a file that is not an image;
\* otherwise returns the homepageImages[num] object and the files written.
processHomepageImage(b, num) ==
  IF ~Decodable(b) THEN [throws |-> TRUE]
  ELSE LET widths == GenerateSizes(imageSizes, 1, Width(b))
       IN [throws |-> FALSE,
           results |-> [index |-> num,
                        path |-> "/images/homepage/" \o ToString(num),
                        srcset |-> [avif |-> HomepageSrcset(num, widths, "avif"),
                                    webp |-> HomepageSrcset(num, widths, "webp"),
                                    jpg |-> HomepageSrcset(num, widths, "jpg")],
                        src |-> "/images/homepage/" \o ToString(num) \o "/"
                                  \o MaxAvailableSize(widths) \o ".jpg",
                        placeholder |-> Placeholder(b),
                        aspectRatio |-> <<Width(b), Height(b)>>,
                        width |-> Width(b),
                        height |-> Height(b),
                        dominantColor |-> extractDominantColor(b)],
           files |-> SizeFiles(widths, b)]

\* ------------------------------------------------------------------- state
VARIABLES
  source,            \* working tree: source path -> content (NoFile when missing)
  homepageDir,       \* whether the homepage/ folder exists
  cacheFile,         \* .image-cache.json: [kind, json]
  dirs,              \* dist/images: existing output directory -> (file name -> content it came from)
  distFiles,         \* everything in dist/ other than images/
  pc,                \* position of build(); "done"/"failed" once the run has exited and
                     \* while the tree is as it left it; "idle" before the first run and after an edit
  exitStatus,        \* exit status of the last finished run, -1 before
  imageCache,        \* let imageCache
  imageCacheUpdated, \* let imageCacheUpdated
  projects,          \* result of loadProjects()
  pi,                \* processImages: position in `for (const project of projects)`
  ii,                \* position in `for (const img of project.images)` / `for (const file of numberedImages)`
  imageData,         \* processImages: imageData
  homepageImages,    \* processHomepageImages: homepageImages
  landingImages,     \* processLandingImages: landingImages
  counts,            \* the let-counters of processImages and processHomepageImages
  warnings,          \* processImages: warnings
  allFilenames,      \* processImages: allFilenames (lower-cased file name -> first slug)
  numberedImages,    \* processHomepageImages: numberedImages
  cacheWrites,       \* times this run wrote .image-cache.json
  inflight,          \* images whose derivation this run has started and is still awaiting
  derived,           \* source paths whose resize/encode pipeline this run has completed
  stdout,            \* per cache key, what this run wrote for it: "+", "." or "error"
  reports,           \* the count lines logged by this run
  errorLog,          \* console.error / console.warn lines of this run
  builds,            \* runs started so far
  edits,             \* operator edits so far
  start              \* what this run started from: the cache file, the directories of
                     \* dist/images, whether the previous run finished with its cache saved
                     \* and nothing was edited since (rerun) and, if so, that run's result

fsVars == <<source, homepageDir, cacheFile, dirs, distFiles>>
runVars == <<exitStatus, imageCache, imageCacheUpdated, projects, pi, ii, imageData,
             homepageImages, landingImages, counts, warnings, allFilenames, numberedImages, cacheWrites,
             inflight, derived, stdout, reports, errorLog>>
\* ------------------------------------------------------ Stripe webhook
\* Requests followed through the webhook function.
MaxDeliveries == 2

\* Checkout session ids (session.id).
Sessions == {"cs_1", "cs_2"}

\* stripeEvent.type: the three types the switch names and one it does not.
EventTypes ==
  {"checkout.session.completed", "checkout.session.async_payment_succeeded",
   "checkout.session.async_payment_failed", "payment_intent.succeeded"}

\* A request to /.netlify/functions/stripe-webhook: its method, whether its
\* stripe-signature header is a signature of the body under
\* STRIPE_WEBHOOK_SECRET, and the event in its body: type, and of
\* data.object the id, payment_status and metadata.order_items (as
\* create-checkout.js writes it, or not there at all).
Requests ==
  [httpMethod : {"POST", "GET"}, signature : {"good", "forged"}, type : EventTypes,
   id : Sessions, payment_status : {"paid", "unpaid"}, order_items : {"cart", "absent"}]

NoEvent ==
  [httpMethod |-> "", signature |-> "", type |-> "", id |-> "", payment_status |-> "",
   order_items |-> ""]

\* handler() has not returned / has let an exception out.
NoResponse == 0
Thrown == -1

\* A constructEvent that takes any body as signed.
constructEvent_Trusting(req) == TRUE

\* stripe.webhooks.constructEvent(event.body, sig, webhookSecret): returns
\* the event when the signature verifies and throws otherwise.
constructEvent(req) == req.signature = "good"

\* A switch that fulfils every completed session, paid or not.
Fulfils_AnyCompleted(type, payment_status) ==
  type \in {"checkout.session.completed", "checkout.session.async_payment_succeeded"}

\* The switch on stripeEvent.type: whether it calls handleSuccessfulPayment.
Fulfils(type, payment_status) ==
  \/ type = "checkout.session.completed" /\ payment_status = "paid"
  \/ type = "checkout.session.async_payment_succeeded"

\* JSON.parse(session.metadata?.order_items || '[]') mapped to the order's
\* items: what create-checkout.js stored for a cart of one print.
orderItemsOf(order_items) ==
  IF order_items = "cart"
  THEN <<[print_id |-> "print-001", size |-> "Small", quantity |-> 1]>>
  ELSE <<>>

\* PRINT_PRODUCT_MAP[print_id].sizes[size].sku: null as the file ships,
\* a Creativehub SKU once configured as its comments ask.
skuOf(item, skus) == IF skus THEN "sku-" \o item.print_id \o "-" \o item.size ELSE "null"

\* The loop of createPrintspaceOrder: the items that have a SKU.
labItems(items, skus) ==
  [i \in {j \in DOMAIN items : skuOf(items[j], skus) # "null"} |->
     [sku |-> skuOf(items[i], skus), quantity |-> items[i].quantity]]

\* A catch that lets the failure out of handler().
catchOrderError_Rethrows(message) == [whPc |-> "returned", response |-> Thrown, log |-> {}]

\* catch (error) of handleSuccessfulPayment around createPrintspaceOrder:
\* logs, does not throw, and the handler goes on to its return.
catchOrderError(message) ==
  [whPc |-> "acknowledge", response |-> NoResponse,
   log |-> {"Failed to create Printspace order: " \o message, "Order processed successfully"}]

\* ------------------------------------------------------ create-checkout
\* Items in a cart posted to create-checkout.
MaxItems == 2

\* PRINT_CATALOG, two of its prints: id -> title and sizes (price in pence).
PRINT_CATALOG ==
  [id \in {"print-001", "print-002"} |->
     [title |-> IF id = "print-001" THEN "Sarajevo Morning" ELSE "Flower Seller",
      sizes |-> [n \in {"Small", "Medium"} |->
                   [dimensions |-> IF n = "Small" THEN "10 x 15 in" ELSE "16 x 24 in",
                    price |-> IF n = "Small" THEN 15000 ELSE 27500]]]]

\* Names every object literal answers to without having them: members of
\* Object.prototype.
ObjectPrototype == {"constructor"}

\* obj[key] on an object literal: its own property, else what
\* Object.prototype has under that name (a function, truthy, with no
\* properties of the catalogue), else undefined.
Get(obj, key) ==
  IF key \in DOMAIN obj THEN [kind |-> "own", value |-> obj[key]]
  ELSE IF key \in ObjectPrototype THEN [kind |-> "inherited"]
  ELSE [kind |-> "undefined"]

\* The items a request can name: a print of the catalogue, an id it does
\* not have, a property name of every object; the same for sizes.
CartItems ==
  [printId : {"print-001", "print-999", "constructor"},
   size : {"Small", "Poster", "constructor"},
   quantity : {1}]

RECURSIVE SeqsUpTo(_, _)
SeqsUpTo(S, n) ==
  IF n = 0 THEN {<<>>}
  ELSE LET shorter == SeqsUpTo(S, n - 1)
       IN shorter \cup {Append(q, x) : q \in {r \in shorter : Len(r) = n - 1}, x \in S}

\* Requests to /.netlify/functions/create-checkout: the method and the
\* parsed body, { items: [...] } (cart), { printId, size } (single) or
\* neither (other).
CheckoutRequests ==
  [httpMethod : {"POST"}, format : {"cart"}, items : SeqsUpTo(CartItems, MaxItems)]
    \cup [httpMethod : {"POST"}, format : {"single"}, items : SeqsUpTo(CartItems, 1) \ {<<>>}]
    \cup [httpMethod : {"POST", "GET"}, format : {"other"}, items : {<<>>}]

\* stripe.checkout.sessions.create as Stripe documents it: a session needs
\* at least one line item, each with an integer unit_amount.
StripeAccepts(lineItems) ==
  /\ lineItems # <<>>
  /\ \A i \in DOMAIN lineItems : lineItems[i].unit_amount \in Nat

\* ------------------------------------------------------ service worker
\* Image requests followed, and fetch handlers that may be under way at once.
MaxImageRequests == 3
MaxHandlers == 2

\* Images the visitor has viewed one after the other, each cached before
\* the next was requested, when the requests followed begin.
Viewed == 98

\* const MAX_IMAGE_CACHE_SIZE
MAX_IMAGE_CACHE_SIZE == 100

\* Math.ceil(MAX_IMAGE_CACHE_SIZE * 0.1)
deleteCount == (MAX_IMAGE_CACHE_SIZE + 9) \div 10

\* A fetch handler slot with no request in it.
NoHandler == [pc |-> "idle", url |-> 0, keys |-> <<>>, i |-> 0]

\* cache.delete(request): the entries without that request.
CacheDelete(cache, url) == SelectSeq(cache, LAMBDA r : r # url)

\* ------------------------------------------------------------ watch mode
\* File events followed while the watcher runs.
MaxChanges == 3

\* The rebuilds of watch mode: runFullBuild, rebuildCss, rebuildJs.
BuildTypes == {"full", "css", "js"}

\* pendingBuildType = null
Null == "null"

\* handleFullBuild after its build, lines 260-271: a pending type is
\* handed to its debounced handler, which arms that handler's timer.
afterFullBuild(pending, timers) ==
  IF pending = Null THEN timers ELSE [timers EXCEPT ![pending] = TRUE]

\* ------------------------------------------------------------ print store
\* Cart operations followed on the prints page.
MaxCartOps == 4

\* window.PRINT_STORE_DATA: the prints on sale with their sizes (price in
\* pounds).
printData ==
  [id \in {"print-001", "print-002"} |->
     [id |-> id,
      title |-> IF id = "print-001" THEN "Sarajevo Morning" ELSE "Flower Seller",
      sizes |-> [n \in {"Small", "Medium"} |->
                   [name |-> n, price |-> IF n = "Small" THEN 150 ELSE 275]]]]

\* JSON.stringify(cart): every item written out field by field, in order.
JSONstringify(c) ==
  [i \in DOMAIN c |-> <<c[i].printId, c[i].title, c[i].sizeName, c[i].price, c[i].quantity>>]

\* JSON.parse of such a text: the items read back.
JSONparse(text) ==
  [i \in DOMAIN text |->
     [printId |-> text[i][1], title |-> text[i][2], sizeName |-> text[i][3],
      price |-> text[i][4], quantity |-> text[i][5]]]

\* cart.findIndex(item => item.printId === print.id && item.sizeName ===
\* size.name): the first such index, 0 for -1.
findIndex(c, print, size) ==
  IF \E i \in DOMAIN c : c[i].printId = print.id /\ c[i].sizeName = size.name
  THEN CHOOSE i \in DOMAIN c :
         /\ c[i].printId = print.id /\ c[i].sizeName = size.name
         /\ \A j \in 1..(i - 1) : ~(c[j].printId = print.id /\ c[j].sizeName = size.name)
  ELSE 0

\* cart.splice(index, 1)
splice(c, index) == [i \in 1..(Len(c) - 1) |-> IF i < index THEN c[i] ELSE c[i + 1]]

\* An updateQuantity that removes an item only below zero.
RemovesAt_BelowZero(quantity) == quantity < 0

\* updateQuantity, line 96: `cart[index].quantity <= 0`
RemovesAt(quantity) == quantity <= 0

\* getCartItemCount: cart.reduce((count, item) => count + item.quantity, 0)
RECURSIVE reduceCount(_, _, _)
reduceCount(c, i, count) ==
  IF i > Len(c) THEN count ELSE reduceCount(c, i + 1, count + c[i].quantity)

getCartItemCount(c) == reduceCount(c, 1, 0)

\* The Stripe webhook function (netlify/functions/stripe-webhook.js).
VARIABLES
  env,               \* the deployment: [CREATIVEHUB_API_KEY, skus] (set or not)
  event,             \* the request handler() is serving; NoEvent between requests
  whPc,              \* position of handler()
  trace,             \* the steps handler() has taken for this request, in order
  response,          \* its outcome: NoResponse, a statusCode, or Thrown
  console,           \* what it logged for this request
  labOrders,         \* orders the print lab accepted: externalReference -> how many
  deliveries         \* requests delivered so far

webhookVars == <<env, event, whPc, trace, response, console, labOrders, deliveries>>

\* The checkout function (netlify/functions/create-checkout.js).
VARIABLES
  coRequest,         \* the request handler() is serving
  coPc,              \* position of handler()
  items,             \* let items
  lineItems,         \* const lineItems, as pushed so far
  coResponse,        \* statusCode returned; NoResponse before
  stripeSessions     \* checkout sessions Stripe has created: their line_items

checkoutVars == <<coRequest, coPc, items, lineItems, coResponse, stripeSessions>>

\* The service worker (src/js/sw.js).
VARIABLES
  swCache,           \* the cache IMAGE_CACHE: its requests in the order of cache.keys()
  handlers,          \* runs of cacheFirstWithRuntimeCache: slot -> [pc, url, keys, i]
  requested          \* image URLs requested so far (URLs are numbered 1, 2, ...)

swVars == <<swCache, handlers, requested>>

\* Watch mode (scripts/watch.js).
VARIABLES
  isBuilding,        \* let isBuilding
  pendingBuildType,  \* let pendingBuildType (Null or a build type)
  timeoutId,         \* debounce: build type -> whether its handler's timer is armed
  running,           \* builds under way: "initial" (the --serve build) or a build type
  changes,           \* file events so far
  owed               \* build types asked for during a build and not started since

watchVars == <<isBuilding, pendingBuildType, timeoutId, running, changes, owed>>

\* The print store page (src/js/print-store.js).
VARIABLES
  cart,              \* let cart
  localStorage,      \* the key jc-print-cart: [set, text]
  cartOps,           \* cart operations so far
  lastOp             \* the last of them

cartVars == <<cart, localStorage, cartOps, lastOp>>

\* Everything outside build.js.
siteVars == <<webhookVars, checkoutVars, swVars, watchVars, cartVars>>

buildVars == <<source, homepageDir, cacheFile, dirs, distFiles, pc, exitStatus, imageCache,
               imageCacheUpdated, projects, pi, ii, imageData, homepageImages, landingImages, counts,
               warnings,
               allFilenames, numberedImages, cacheWrites, inflight, derived, stdout, reports,
               errorLog, builds, edits, start>>

vars == <<buildVars, siteVars>>

cacheVars == <<imageCache, imageCacheUpdated, cacheWrites>>
projVars == <<projects, pi, imageData, warnings, allFilenames>>
homeVars == <<homepageImages, numberedImages, landingImages>>
logVars == <<stdout, reports, errorLog>>
ghostVars == <<builds, edits, start>>
flightVars == <<inflight, derived>>

\* No build is running.
Idle == pc \in {"idle", "done", "failed"}

\* The counters as declared: totalProcessed, totalSkipped (processImages),
\* projectProcessed, projectSkipped (per project), processedCount,
\* skippedCount (processHomepageImages).
ZeroCounts ==
  [totalProcessed |-> 0, totalSkipped |-> 0, projectProcessed |-> 0, projectSkipped |-> 0,
   processedCount |-> 0, skippedCount |-> 0]

\* A checkout with every source image present and decodable.
Checkout ==
  [p \in SourcePaths |->
     CASE p = "projects/p1/original/a.jpg" -> 1
       [] p = "projects/p1/original/b.jpg" -> 2
       [] p = "projects/p2/original/a.jpg" -> 3
       [] p = "homepage/1.jpg" -> 1
       [] p = "homepage/2.jpg" -> 2
       [] OTHER -> 1]

\* A checkout without any image: the projects as new-project.js scaffolds
\* them (project.json and an empty original/), and no homepage/ folder.
Scaffold == [p \in SourcePaths |-> NoFile]

\* A working tree, with or without its images, in which nothing was built.
BuildInit ==
  /\ source \in {Checkout, Scaffold}
  /\ homepageDir = (source = Checkout)
  /\ cacheFile = [kind |-> "absent", json |-> <<>>]
  /\ dirs = <<>>
  /\ distFiles = {}
  /\ pc = "idle"
  /\ exitStatus = -1
  /\ imageCache = <<>>
  /\ imageCacheUpdated = FALSE
  /\ projects = <<>>
  /\ pi = 1
  /\ ii = 1
  /\ imageData = <<>>
  /\ homepageImages = <<>>
  /\ landingImages = [commercial |-> <<>>, personal |-> <<>>]
  /\ counts = ZeroCounts
  /\ warnings = {}
  /\ allFilenames = <<>>
  /\ numberedImages = <<>>
  /\ cacheWrites = 0
  /\ inflight = {}
  /\ derived = {}
  /\ stdout = <<>>
  /\ reports = <<>>
  /\ errorLog = {}
  /\ builds = 0
  /\ edits = 0
  /\ start = [cacheFile |-> [kind |-> "absent", json |-> <<>>], dirs |-> <<>>, rerun |-> FALSE,
              imageData |-> <<>>, homepageImages |-> <<>>]

\* The webhook function has not been called.
WebhookIdle ==
  /\ event = NoEvent
  /\ whPc = "idle"
  /\ trace = <<>>
  /\ response = NoResponse
  /\ console = {}
  /\ labOrders = [s \in Sessions |-> 0]
  /\ deliveries = 0

\* The checkout function has not been called.
CheckoutIdle ==
  /\ coRequest = [httpMethod |-> "", format |-> "", items |-> <<>>]
  /\ coPc = "idle"
  /\ items = <<>>
  /\ lineItems = <<>>
  /\ coResponse = NoResponse
  /\ stripeSessions = <<>>

\* The service worker is installed and has handled no fetch.
SwIdle ==
  /\ swCache = <<>>
  /\ handlers = [h \in 1..MaxHandlers |-> NoHandler]
  /\ requested = 0

\* Watch mode is not running.
WatchIdle ==
  /\ isBuilding = FALSE
  /\ pendingBuildType = Null
  /\ timeoutId = [t \in BuildTypes |-> FALSE]
  /\ running = {}
  /\ changes = 0
  /\ owed = {}

\* The prints page as first loaded: nothing stored, loadCart yields [].
CartIdle ==
  /\ cart = <<>>
  /\ localStorage = [set |-> FALSE, text |-> <<>>]
  /\ cartOps = 0
  /\ lastOp = "loadCart"

\* No request has reached the site's functions and no page is open.
SiteIdle ==
  /\ env = [CREATIVEHUB_API_KEY |-> FALSE, skus |-> FALSE]
  /\ WebhookIdle
  /\ CheckoutIdle
  /\ SwIdle
  /\ WatchIdle
  /\ CartIdle

\* The working tree as scaffolded, and build.js never run.
NoBuild == BuildInit /\ source = Scaffold

\* build.js on its own: the site's functions are not called meanwhile.
Init == BuildInit /\ SiteIdle

\* ------------------------------------------------- operator edits (idle)
\* An edit is followed when no build is running and a further run of
\* build.js is still to come.
Editable == Idle /\ edits < MaxEdits /\ builds < MaxBuilds

\* The contents followed for the file at p: any of Bytes for a project or
\* homepage image; for a landing image the widest image or a file that is
\* not an image.
Contents(p) == IF p \in LandingPaths THEN {1, 4} ELSE Bytes

\* The operator replaces, adds or removes a source image.
EditSource(p, b) ==
  /\ Editable
  /\ source[p] # b
  /\ source' = [source EXCEPT ![p] = b]
  /\ homepageDir' = (homepageDir \/ (b # NoFile /\ p \in HomepagePaths))
  /\ edits' = edits + 1
  /\ pc' = "idle"
  /\ UNCHANGED <<cacheFile, dirs, distFiles, runVars, builds, start>>
  /\ UNCHANGED siteVars

\* The operator deletes the homepage/ folder with everything in it.
RemoveHomepageDir ==
  /\ Editable
  /\ homepageDir
  /\ homepageDir' = FALSE
  /\ source' = [p \in SourcePaths |-> IF p \in HomepagePaths THEN NoFile ELSE source[p]]
  /\ edits' = edits + 1
  /\ pc' = "idle"
  /\ UNCHANGED <<cacheFile, dirs, distFiles, runVars, builds, start>>
  /\ UNCHANGED siteVars

\* The operator deletes one derived output directory.
RemoveOutputDir(d) ==
  /\ Editable
  /\ d \in DOMAIN dirs
  /\ dirs' = [e \in DOMAIN dirs \ {d} |-> dirs[e]]
  /\ edits' = edits + 1
  /\ pc' = "idle"
  /\ UNCHANGED <<source, homepageDir, cacheFile, distFiles, runVars, builds, start>>
  /\ UNCHANGED siteVars

\* The operator deletes dist/ altogether.
RemoveDist ==
  /\ Editable
  /\ DOMAIN dirs # {}
  /\ dirs' = <<>>
  /\ distFiles' = {}
  /\ edits' = edits + 1
  /\ pc' = "idle"
  /\ UNCHANGED <<source, homepageDir, cacheFile, runVars, builds, start>>
  /\ UNCHANGED siteVars

\* The operator deletes .image-cache.json (README, TIPS / CACHING), or the
\* file is left truncated so that it no longer parses.
DamageCacheFile(kind) ==
  /\ Editable
  /\ cacheFile.kind = "json"
  /\ cacheFile' = [kind |-> kind, json |-> <<>>]
  /\ edits' = edits + 1
  /\ pc' = "idle"
  /\ UNCHANGED <<source, homepageDir, dirs, distFiles, runVars, builds, start>>
  /\ UNCHANGED siteVars

\* ------------------------------------------------------------- build()
\* `node build.js`: a new process, module state as initialised at lines
\* 264-265, build() entered.
StartBuild ==
  /\ Idle /\ builds < MaxBuilds
  /\ builds' = builds + 1
  /\ pc' = "loadImageCache"
  /\ exitStatus' = -1
  /\ imageCache' = <<>>
  /\ imageCacheUpdated' = FALSE
  /\ projects' = <<>>
  /\ pi' = 1
  /\ ii' = 1
  /\ imageData' = <<>>
  /\ homepageImages' = <<>>
  /\ landingImages' = [commercial |-> <<>>, personal |-> <<>>]
  /\ counts' = ZeroCounts
  /\ warnings' = {}
  /\ allFilenames' = <<>>
  /\ numberedImages' = <<>>
  /\ cacheWrites' = 0
  /\ inflight' = {}
  /\ derived' = {}
  /\ stdout' = <<>>
  /\ reports' = <<>>
  /\ errorLog' = {}
  /\ LET rerun == pc = "done" /\ "Error saving image cache" \notin errorLog
     IN start' = [cacheFile |-> cacheFile,
                  dirs |-> [d \in DOMAIN dirs |-> <<>>],
                  rerun |-> rerun,
                  imageData |-> IF rerun THEN imageData ELSE <<>>,
                  homepageImages |-> IF rerun THEN homepageImages ELSE <<>>]
  /\ UNCHANGED <<fsVars, edits>>
  /\ UNCHANGED siteVars

\* loadImageCache that reads the file and never assigns the result.
ReadImageCache_Discards(file) ==
  IF file.kind = "corrupt"
    THEN [cache |-> <<>>, warn |-> {"Warning: Could not load image cache"}, pc |-> "clean"]
    ELSE [cache |-> <<>>, warn |-> {}, pc |-> "clean"]

\* loadImageCache without its try/catch: a file that does not parse throws
\* into build()'s catch.
ReadImageCache_Throws(file) ==
  IF file.kind = "json" THEN [cache |-> file.json, warn |-> {}, pc |-> "clean"]
  ELSE IF file.kind = "absent" THEN [cache |-> <<>>, warn |-> {}, pc |-> "clean"]
  ELSE [cache |-> <<>>, warn |-> {}, pc |-> "failed"]

\* The try/catch of loadImageCache: the parsed file when it exists and
\* parses; {} when it is absent; {} and a warning when fs.readJson throws.
\* The build goes on to clean() in every case.
ReadImageCache(file) ==
  IF file.kind = "json" THEN [cache |-> file.json, warn |-> {}, pc |-> "clean"]
  ELSE IF file.kind = "absent" THEN [cache |-> <<>>, warn |-> {}, pc |-> "clean"]
  ELSE [cache |-> <<>>, warn |-> {"Warning: Could not load image cache"}, pc |-> "clean"]

\* await loadImageCache()
loadImageCache ==
  /\ pc = "loadImageCache"
  /\ LET r == ReadImageCache(cacheFile)
     IN /\ imageCache' = r.cache
        /\ errorLog' = errorLog \cup r.warn
        /\ pc' = r.pc
        /\ exitStatus' = IF r.pc = "failed" THEN 1 ELSE exitStatus
  /\ UNCHANGED <<fsVars, imageCacheUpdated, cacheWrites, projVars, homeVars, ii, counts,
                 stdout, reports, ghostVars, flightVars>>
  /\ UNCHANGED siteVars

\* await clean(): removes everything in dist/ except images/.
clean ==
  /\ pc = "clean"
  /\ distFiles' = {}
  /\ pc' = "loadProjects"
  /\ UNCHANGED <<source, homepageDir, cacheFile, dirs, exitStatus, cacheVars, projVars,
                 homeVars, ii, counts, logVars, ghostVars, flightVars>>
  /\ UNCHANGED siteVars

\* The image files found in projects/<slug>/original, in sorted order.
ImageFiles(slug) ==
  SelectSeq(OriginalFiles(slug), LAMBDA f : source[ProjectInputPath(slug, f)] # NoFile)

\* await loadProjects(): per project the images with index = position + 1
\* and size 'full' (no explicit order in project.json), and hasImages.
loadProjects ==
  /\ pc = "loadProjects"
  /\ projects' = [i \in DOMAIN ProjectDirs |->
                    LET files == ImageFiles(ProjectDirs[i])
                    IN [slug |-> ProjectDirs[i],
                        images |-> [j \in DOMAIN files |->
                                      [file |-> files[j], index |-> j, size |-> "full"]],
                        hasImages |-> Len(files) > 0]]
  /\ pi' = 1
  /\ pc' = "processImages"
  /\ UNCHANGED <<fsVars, exitStatus, cacheVars, imageData, warnings, allFilenames, homeVars,
                 ii, counts, logVars, ghostVars, flightVars>>
  /\ UNCHANGED siteVars

\* The reuse test without the hash comparison.
CacheHit_IgnoresHash(cache, ds, cacheKey, fileHash, outputDir) ==
  /\ cacheKey \in DOMAIN cache
  /\ outputDir \in DOMAIN ds

\* The reuse test without the pathExists check.
CacheHit_IgnoresOutputDir(cache, ds, cacheKey, fileHash, outputDir) ==
  /\ cacheKey \in DOMAIN cache
  /\ cache[cacheKey].hash = fileHash

\* The reuse test of processImages (line 872) and processHomepageImages
\* (line 622): cached && cached.hash === fileHash && pathExists(outputDir).
CacheHit(cache, ds, cacheKey, fileHash, outputDir) ==
  /\ cacheKey \in DOMAIN cache
  /\ cache[cacheKey].hash = fileHash
  /\ outputDir \in DOMAIN ds

\* A put that stores the new data under the entry's old hash.
CachePut_KeepsHash(cache, cacheKey, fileHash, data) ==
  IF cacheKey \in DOMAIN cache
    THEN (cacheKey :> [hash |-> cache[cacheKey].hash, data |-> data]) @@ cache
    ELSE (cacheKey :> [hash |-> fileHash, data |-> data]) @@ cache

\* imageCache[cacheKey] = { hash: fileHash, data } (lines 892-895, 696-699):
\* one assignment that replaces the whole entry.
CachePut(cache, cacheKey, fileHash, data) ==
  (cacheKey :> [hash |-> fileHash, data |-> data]) @@ cache

\* A loop that starts the next image without awaiting the one before.
AwaitsPrevious_FireAndForget(flight) == TRUE

\* The loop bodies await every call (`await processImage(...)`, line 885;
\* the awaited sharp calls of lines 631-674): the next pass of the loop
\* starts when no derivation is pending.
AwaitsPrevious(flight) == flight = {}

\* The loop body without its try/catch: the error reaches build()'s catch.
OnImageError_Rethrow(loopPc) == "failed"

\* The per-image catch blocks (lines 901-903, 704-706): the error is logged
\* and the loop continues at the same place.
OnImageError(loopPc) == loopPc

\* Lower-casing of a file name (the inventory's names are lower case).
toLowerCase(file) == file

\* A duplicate-filename loop that records nothing and warns of nothing.
CheckDuplicates_Silent(slug, images, i, seen, warns) == [seen |-> seen, warns |-> warns]

\* The duplicate-filename loop at the head of a project: the warnings it
\* adds and the allFilenames map it leaves.
RECURSIVE CheckDuplicates(_, _, _, _, _)
CheckDuplicates(slug, images, i, seen, warns) ==
  IF i > Len(images) THEN [seen |-> seen, warns |-> warns]
  ELSE LET lower == toLowerCase(images[i].file)
       IN IF lower \in DOMAIN seen
            THEN CheckDuplicates(slug, images, i + 1, seen,
                   warns \cup {"Duplicate filename: " \o images[i].file \o " in " \o slug
                                 \o " (also in " \o seen[lower] \o ")"})
            ELSE CheckDuplicates(slug, images, i + 1, (lower :> slug) @@ seen, warns)

\* A collection without images treated as an error that reaches build()'s
\* catch.
OnNoImages_Throws(nextPc) == "failed"

\* `if (!project.hasImages) continue` (line 839) and the early
\* `return homepageImages` (lines 592-595): the build goes on at nextPc.
OnNoImages(nextPc) == nextPc

\* processImages: `for (const project of projects)` reaches a project
\* without images: continue.
skipProject ==
  /\ pc = "processImages"
  /\ pi <= Len(projects)
  /\ ~projects[pi].hasImages
  /\ pi' = pi + 1
  /\ pc' = OnNoImages(pc)
  /\ exitStatus' = IF OnNoImages(pc) = "failed" THEN 1 ELSE exitStatus
  /\ UNCHANGED <<fsVars, cacheVars, projects, imageData, warnings,
                 allFilenames, homeVars, ii, counts, logVars, ghostVars, flightVars>>
  /\ UNCHANGED siteVars

\* processImages: the head of the loop body for a project with images
\* (lines 841-854).
beginProject ==
  /\ pc = "processImages"
  /\ pi <= Len(projects)
  /\ projects[pi].hasImages
  /\ LET project == projects[pi]
         dup == CheckDuplicates(project.slug, project.images, 1, allFilenames, {})
     IN /\ imageData' = (project.slug :> <<>>) @@ imageData
        /\ counts' = [counts EXCEPT !.projectProcessed = 0, !.projectSkipped = 0]
        /\ allFilenames' = dup.seen
        /\ warnings' = warnings \cup dup.warns
  /\ ii' = 1
  /\ pc' = "projectImages"
  /\ UNCHANGED <<fsVars, exitStatus, cacheVars, projects, pi, homeVars, logVars, ghostVars, flightVars>>
  /\ UNCHANGED siteVars

\* The files of directory d, none when it does not exist.
FilesIn(ds, d) == IF d \in DOMAIN ds THEN ds[d] ELSE <<>>

\* processImages: one pass of `for (const img of project.images)` up to the
\* call of processImage (lines 856-885): validation, hash and reuse test.  A
\* cache hit ends the pass (continue); otherwise the derivation starts.
processProjectImage ==
  /\ pc = "projectImages"
  /\ ii <= Len(projects[pi].images)
  /\ AwaitsPrevious(inflight)
  /\ LET project == projects[pi]
         img == project.images[ii]
         b == source[ProjectInputPath(project.slug, img.file)]
         outputDir == ProjectOutputDir(project.slug, img.index)
         cacheKey == CacheKey(project.slug, img.file)
         validation == validateImage(b, cacheKey)
         fileHash == getFileHash(b)
     IN /\ warnings' = warnings \cup validation
        /\ IF CacheHit(imageCache, dirs, cacheKey, fileHash, outputDir)
             THEN \* use cached data
                  /\ imageData' = [imageData EXCEPT ![project.slug] =
                                     (img.index :> ([size |-> img.size] @@ imageCache[cacheKey].data)) @@ @]
                  /\ counts' = [counts EXCEPT !.projectSkipped = @ + 1, !.totalSkipped = @ + 1]
                  /\ stdout' = (cacheKey :> ".") @@ stdout
                  /\ UNCHANGED inflight
             ELSE \* await processImage(...)
                  /\ inflight' = inflight \cup {[collection |-> project.slug, file |-> img.file,
                                                   index |-> img.index, size |-> img.size,
                                                   fileHash |-> fileHash]}
                  /\ UNCHANGED <<imageData, counts, stdout>>
  /\ ii' = ii + 1
  /\ UNCHANGED <<fsVars, pc, exitStatus, cacheVars, projects, pi, allFilenames, homeVars,
                 derived, reports, errorLog, ghostVars>>
  /\ UNCHANGED siteVars

\* processImages: the awaited processImage call settles (lines 885-903).  It
\* either rejects, and the catch logs the error, or resolves with the files
\* written, and the result is stored, the cache entry put and the counters
\* advanced.
awaitProcessImage ==
  /\ pc = "projectImages"
  /\ \E t \in inflight :
       LET inputPath == ProjectInputPath(t.collection, t.file)
           b == source[inputPath]
           outputDir == ProjectOutputDir(t.collection, t.index)
           cacheKey == CacheKey(t.collection, t.file)
           r == processImage(b)
       IN /\ inflight' = inflight \ {t}
          /\ IF r.throws
               THEN \* sharp rejects the file; nothing was written
                    /\ errorLog' = errorLog \cup {"Error processing " \o cacheKey}
                    /\ stdout' = (cacheKey :> "error") @@ stdout
                    /\ pc' = OnImageError(pc)
                    /\ exitStatus' = IF OnImageError(pc) = "failed" THEN 1 ELSE exitStatus
                    /\ UNCHANGED <<dirs, imageCache, imageCacheUpdated, imageData, counts, derived>>
               ELSE \* the image is processed and the cache updated
                    /\ dirs' = (outputDir :> (r.files @@ FilesIn(dirs, outputDir))) @@ dirs
                    /\ derived' = derived \cup {inputPath}
                    /\ imageData' = [imageData EXCEPT ![t.collection] =
                                       (t.index :> ([size |-> t.size] @@ r.results)) @@ @]
                    /\ imageCache' = CachePut(imageCache, cacheKey, t.fileHash, r.results)
                    /\ imageCacheUpdated' = TRUE
                    /\ counts' = [counts EXCEPT !.projectProcessed = @ + 1, !.totalProcessed = @ + 1]
                    /\ stdout' = (cacheKey :> "+") @@ stdout
                    /\ pc' = pc
                    /\ UNCHANGED <<errorLog, exitStatus>>
  /\ UNCHANGED <<source, homepageDir, cacheFile, distFiles, cacheWrites, projects, pi, ii,
                 warnings, allFilenames, homeVars, reports, ghostVars>>
  /\ UNCHANGED siteVars

\* processImages: the project's images are exhausted; its count line is
\* logged (line 905) and the outer loop moves on.
endProject ==
  /\ pc = "projectImages"
  /\ ii > Len(projects[pi].images)
  /\ inflight = {}
  /\ reports' = Append(reports, [scope |-> projects[pi].slug,
                                 processed |-> counts.projectProcessed,
                                 skipped |-> counts.projectSkipped,
                                 total |-> Len(projects[pi].images)])
  /\ pi' = pi + 1
  /\ pc' = "processImages"
  /\ UNCHANGED <<fsVars, exitStatus, cacheVars, projects, imageData, warnings, allFilenames,
                 homeVars, ii, counts, stdout, errorLog, ghostVars, flightVars>>
  /\ UNCHANGED siteVars

\* processImages: after the last project the summary is logged (line 914)
\* and imageData returned; build() goes on to processHomepageImages.
processImagesReturn ==
  /\ pc = "processImages"
  /\ pi > Len(projects)
  /\ reports' = Append(reports, [scope |-> "Summary",
                                 processed |-> counts.totalProcessed,
                                 skipped |-> counts.totalSkipped])
  /\ pc' = "processHomepageImages"
  /\ UNCHANGED <<fsVars, exitStatus, cacheVars, projVars, homeVars, ii, counts, stdout,
                 errorLog, ghostVars, flightVars>>
  /\ UNCHANGED siteVars

\* processHomepageImages: no homepage folder, return {} (lines 592-595).
noHomepageFolder ==
  /\ pc = "processHomepageImages"
  /\ ~homepageDir
  /\ ii' = 1
  /\ pc' = OnNoImages("processLandingImages")
  /\ exitStatus' = IF OnNoImages("processLandingImages") = "failed" THEN 1 ELSE exitStatus
  /\ UNCHANGED <<fsVars, cacheVars, projVars, homeVars, counts, logVars,
                 ghostVars, flightVars>>
  /\ UNCHANGED siteVars

\* processHomepageImages: the numbered images of the folder, sorted by
\* number (lines 597-606).
listHomepageImages ==
  /\ pc = "processHomepageImages"
  /\ homepageDir
  /\ numberedImages' = SelectSeq(HomepageFiles, LAMBDA f : source[HomepageInputPath(f)] # NoFile)
  /\ ii' = 1
  /\ pc' = "homepageImages"
  /\ UNCHANGED <<fsVars, exitStatus, cacheVars, projVars, homepageImages, landingImages,
                 counts, logVars, ghostVars, flightVars>>
  /\ UNCHANGED siteVars

\* processHomepageImages: one pass of `for (const file of numberedImages)`
\* up to the first sharp call (lines 611-630): hash and reuse test.  A cache
\* hit ends the pass (continue); otherwise the derivation starts.
processHomepageFile ==
  /\ pc = "homepageImages"
  /\ ii <= Len(numberedImages)
  /\ AwaitsPrevious(inflight)
  /\ LET file == numberedImages[ii]
         num == parseInt(file)
         b == source[HomepageInputPath(file)]
         outputDir == HomepageOutputDir(num)
         cacheKey == CacheKey("homepage", file)
         fileHash == getFileHash(b)
     IN IF CacheHit(imageCache, dirs, cacheKey, fileHash, outputDir)
          THEN /\ homepageImages' = (num :> imageCache[cacheKey].data) @@ homepageImages
               /\ counts' = [counts EXCEPT !.skippedCount = @ + 1]
               /\ stdout' = (cacheKey :> ".") @@ stdout
               /\ UNCHANGED inflight
          ELSE /\ inflight' = inflight \cup {[collection |-> "homepage", file |-> file,
                                                index |-> num, size |-> "full",
                                                fileHash |-> fileHash]}
               /\ UNCHANGED <<homepageImages, counts, stdout>>
  /\ ii' = ii + 1
  /\ UNCHANGED <<fsVars, pc, exitStatus, cacheVars, projVars, numberedImages, landingImages,
                 derived, reports, errorLog, ghostVars>>
  /\ UNCHANGED siteVars

\* processHomepageImages: the awaited sharp calls of the pass settle (lines
\* 630-706).  Either metadata() rejects and the catch logs the error, or the
\* files are written, homepageImages[num] set and the cache entry put.
awaitHomepageImage ==
  /\ pc = "homepageImages"
  /\ \E t \in inflight :
       LET inputPath == HomepageInputPath(t.file)
           b == source[inputPath]
           outputDir == HomepageOutputDir(t.index)
           cacheKey == CacheKey("homepage", t.file)
           r == processHomepageImage(b, t.index)
       IN /\ inflight' = inflight \ {t}
          /\ IF r.throws
               THEN /\ errorLog' = errorLog \cup {"Error processing " \o cacheKey}
                    /\ stdout' = (cacheKey :> "error") @@ stdout
                    /\ pc' = OnImageError(pc)
                    /\ exitStatus' = IF OnImageError(pc) = "failed" THEN 1 ELSE exitStatus
                    /\ UNCHANGED <<dirs, imageCache, imageCacheUpdated, homepageImages, counts,
                                   derived>>
               ELSE /\ dirs' = (outputDir :> (r.files @@ FilesIn(dirs, outputDir))) @@ dirs
                    /\ derived' = derived \cup {inputPath}
                    /\ homepageImages' = (t.index :> r.results) @@ homepageImages
                    /\ imageCache' = CachePut(imageCache, cacheKey, t.fileHash, r.results)
                    /\ imageCacheUpdated' = TRUE
                    /\ counts' = [counts EXCEPT !.processedCount = @ + 1]
                    /\ stdout' = (cacheKey :> "+") @@ stdout
                    /\ pc' = pc
                    /\ UNCHANGED <<errorLog, exitStatus>>
  /\ UNCHANGED <<source, homepageDir, cacheFile, distFiles, cacheWrites, projVars, ii,
                 numberedImages, landingImages, reports, ghostVars>>
  /\ UNCHANGED siteVars

\* processHomepageImages: after the loop, homepage.json is written when
\* there is at least one entry and the count line logged (lines 709-722).
processHomepageImagesReturn ==
  /\ pc = "homepageImages"
  /\ ii > Len(numberedImages)
  /\ inflight = {}
  /\ distFiles' = IF DOMAIN homepageImages # {} THEN distFiles \cup {"homepage.json"} ELSE distFiles
  /\ reports' = Append(reports, [scope |-> "Homepage",
                                 processed |-> counts.processedCount,
                                 skipped |-> counts.skippedCount,
                                 total |-> Cardinality(DOMAIN homepageImages)])
  /\ ii' = 1
  /\ pc' = "processLandingImages"
  /\ UNCHANGED <<source, homepageDir, cacheFile, dirs, exitStatus, cacheVars, projVars,
                 homeVars, counts, stdout, errorLog, ghostVars, flightVars>>
  /\ UNCHANGED siteVars

\* A loop body of processFolder that passes over a file whose output
\* directory is already there.
LandingSkips_WhenDirExists(ds, dir) == dir \in DOMAIN ds

\* The loop body of processFolder (lines 753-812) has no reuse test and no
\* `continue`: no file is passed over, whatever directories exist.
LandingSkips(ds, dir) == FALSE

\* processFolder's loop over imageFiles from position i on: the results
\* pushed, the directories as the loop leaves them, and the errors logged.
\* Every file gets its directory (ensureDir precedes the try) and is
\* derived; no cache is consulted.
RECURSIVE processFolder(_, _, _, _)
processFolder(type, files, i, acc) ==
  IF i > Len(files) THEN acc
  ELSE LET b == source[LandingInputPath(type, files[i])]
           dir == LandingOutputDir(type, i)
           r == processLandingImage(b, type, i)
       IN IF LandingSkips(acc.ds, dir) THEN processFolder(type, files, i + 1, acc)
          ELSE IF r.throws
            THEN processFolder(type, files, i + 1,
                   [acc EXCEPT !.ds = (dir :> FilesIn(acc.ds, dir)) @@ @,
                               !.errors = @ \cup {"Error processing " \o files[i]}])
            ELSE processFolder(type, files, i + 1,
                   [acc EXCEPT !.ds = (dir :> (r.files @@ FilesIn(acc.ds, dir))) @@ @,
                               !.results = Append(@, r.results),
                               !.derived = @ \cup {LandingInputPath(type, files[i])}])

\* processLandingImages: processFolder for the next of the two folders
\* (lines 743-818); a folder that does not exist yields [].
processLandingFolder ==
  /\ pc = "processLandingImages"
  /\ ii <= Len(LandingTypes)
  /\ LET type == LandingTypes[ii]
         files == SelectSeq(LandingFiles(type), LAMBDA f : source[LandingInputPath(type, f)] # NoFile)
         done == processFolder(type, files, 1,
                   [results |-> <<>>, ds |-> dirs, errors |-> {}, derived |-> {}])
     IN /\ landingImages' = [landingImages EXCEPT ![type] = done.results]
        /\ dirs' = done.ds
        /\ derived' = derived \cup done.derived
        /\ errorLog' = errorLog \cup done.errors
  /\ ii' = ii + 1
  /\ UNCHANGED <<source, homepageDir, cacheFile, distFiles, pc, exitStatus, cacheVars,
                 projVars, homepageImages, numberedImages, counts, stdout, reports, ghostVars,
                 inflight>>
  /\ UNCHANGED siteVars

\* processLandingImages: both folders done, the count line logged, return.
processLandingImagesReturn ==
  /\ pc = "processLandingImages"
  /\ ii > Len(LandingTypes)
  /\ reports' = Append(reports, [scope |-> "Landing",
                                 commercial |-> Len(landingImages.commercial),
                                 personal |-> Len(landingImages.personal)])
  /\ pc' = "generatePages"
  /\ UNCHANGED <<fsVars, exitStatus, cacheVars, projVars, homeVars, ii, counts, stdout,
                 errorLog, ghostVars, flightVars>>
  /\ UNCHANGED siteVars

\* What generatePages, copyAssets, generateCacheManifest, generateSitemap
\* and generateRobotsTxt leave in dist/.
SiteFiles == {"pages", "assets", "cache-manifest.json", "sitemap.xml", "robots.txt"}

\* build(): loadCriticalCss, generatePages, copyAssets, generateCacheManifest,
\* generateSitemap and generateRobotsTxt all return (lines 1906-1912).
generateSite ==
  /\ pc = "generatePages"
  /\ distFiles' = distFiles \cup SiteFiles
  /\ pc' = "saveImageCache"
  /\ UNCHANGED <<source, homepageDir, cacheFile, dirs, exitStatus, cacheVars, projVars,
                 homeVars, ii, counts, logVars, ghostVars, flightVars>>
  /\ UNCHANGED siteVars

\* A catch block of build() that saves the store before it exits.
buildCatch_Saves(file, cache) == [kind |-> "json", json |-> cache]

\* The catch block of build() (lines 1921-1924): it logs and exits, and
\* leaves .image-cache.json as it found it.
buildCatch(file, cache) == file

\* build(): one of those steps throws (a template that does not render, a
\* file that cannot be written); the catch of build() logs and exits with 1.
buildFails ==
  /\ pc = "generatePages"
  /\ errorLog' = errorLog \cup {"Build failed"}
  /\ cacheFile' = buildCatch(cacheFile, imageCache)
  /\ pc' = "failed"
  /\ exitStatus' = 1
  /\ UNCHANGED <<source, homepageDir, dirs, distFiles, cacheVars, projVars, homeVars, ii,
                 counts, stdout, reports, ghostVars, flightVars>>
  /\ UNCHANGED siteVars

\* What fs.outputJson on .image-cache.json can do: succeed, fail leaving the
\* file as it was, or fail leaving a truncated file.
WriteOutcomes == {"ok", "denied", "truncated"}

\* saveImageCache without the dirty test.
PersistNeeded_Always(updated) == TRUE

\* saveImageCache, line 305: `if (!imageCacheUpdated) return`.
PersistNeeded(updated) == updated

\* saveImageCache rethrowing the write error into build()'s catch.
OnSaveError_Rethrow == "failed"

\* saveImageCache, lines 309-311: a write error is logged and swallowed, so
\* build() runs on to its last line.
OnSaveError == "done"

\* await saveImageCache() and the end of build() (lines 1914-1919).
saveImageCache ==
  /\ pc = "saveImageCache"
  /\ \E outcome \in WriteOutcomes :
       IF ~PersistNeeded(imageCacheUpdated)
         THEN /\ outcome = "ok"
              /\ pc' = "done"
              /\ UNCHANGED <<cacheFile, cacheWrites, errorLog>>
         ELSE IF outcome = "ok"
         THEN /\ cacheFile' = [kind |-> "json", json |-> imageCache]
              /\ cacheWrites' = cacheWrites + 1
              /\ pc' = "done"
              /\ UNCHANGED errorLog
         ELSE /\ cacheFile' = IF outcome = "truncated"
                                THEN [kind |-> "corrupt", json |-> <<>>] ELSE cacheFile
              /\ errorLog' = errorLog \cup {"Error saving image cache"}
              /\ pc' = OnSaveError
                          /\ UNCHANGED cacheWrites
  /\ exitStatus' = IF pc' = "done" THEN 0 ELSE 1
  /\ UNCHANGED <<source, homepageDir, dirs, distFiles, imageCache, imageCacheUpdated,
                 projVars, homeVars, ii, counts, stdout, reports, ghostVars, flightVars>>
  /\ UNCHANGED siteVars

\* The operator's edits.
Edit ==
  \/ \E p \in SourcePaths : \E b \in Contents(p) \cup {NoFile} : EditSource(p, b)
  \/ RemoveHomepageDir
  \/ \E d \in DOMAIN dirs : RemoveOutputDir(d)
  \/ RemoveDist
  \/ \E kind \in {"absent", "corrupt"} : DamageCacheFile(kind)

\* One step of a run of build.js.
Build ==
  \/ StartBuild
  \/ loadImageCache
  \/ clean
  \/ loadProjects
  \/ skipProject
  \/ beginProject
  \/ processProjectImage
  \/ awaitProcessImage
  \/ endProject
  \/ processImagesReturn
  \/ noHomepageFolder
  \/ listHomepageImages
  \/ processHomepageFile
  \/ awaitHomepageImage
  \/ processHomepageImagesReturn
  \/ processLandingFolder
  \/ processLandingImagesReturn
  \/ generateSite
  \/ buildFails
  \/ saveImageCache

Next == Edit \/ Build

Spec == Init /\ [][Next]_vars

\* ================================================================ claims
\* The images this run iterates over, each with its cache key, source
\* path and the output directory the run computes for it.
\* Cache key, source path and output directory of a project file at an index.
ProjectEntries ==
  [slug \in Range(ProjectDirs) |->
     [file \in Range(OriginalFiles(slug)) |->
        [index \in DOMAIN OriginalFiles(slug) |->
           [key |-> CacheKey(slug, file),
            path |-> ProjectInputPath(slug, file),
            dir |-> ProjectOutputDir(slug, index),
            slug |-> slug,
            index |-> index]]]]

ProjectInventory ==
  UNION {{ProjectEntries[projects[i].slug][projects[i].images[j].file][projects[i].images[j].index] :
           j \in DOMAIN projects[i].images} : i \in DOMAIN projects}

\* Cache key, source path and output directory of a homepage file.
HomepageEntries ==
  [file \in Range(HomepageFiles) |->
     [key |-> CacheKey("homepage", file),
      path |-> HomepageInputPath(file),
      dir |-> HomepageOutputDir(parseInt(file)),
      slug |-> "homepage",
      index |-> parseInt(file)]]

HomepageInventory == {HomepageEntries[numberedImages[j]] : j \in DOMAIN numberedImages}

Inventory == ProjectInventory \cup HomepageInventory

\* The images of the inventory this run has already been through.
Visited == {img \in Inventory : img.key \in DOMAIN stdout}

\* The store as this run loaded it.
LoadedCache == IF start.cacheFile.kind = "json" THEN start.cacheFile.json ELSE <<>>

\* A run is under way or has just exited (no edit since).
InRun == pc # "idle"

\* Both batches of this run are over.
BatchesFinished ==
  pc \in {"processLandingImages", "generatePages", "saveImageCache", "done", "failed"}

\* C1: a run that follows a finished run with its cache saved and nothing
\* edited in between processes no image, and hands page generation the
\* same per-image data as the run before.
C1_IdempotentRebuild ==
  (pc = "done" /\ start.rerun) =>
    /\ counts.totalProcessed = 0
    /\ counts.processedCount = 0
    /\ "+" \notin Range(stdout)
    /\ imageData = start.imageData
    /\ homepageImages = start.homepageImages

C1_Witness ==
  /\ pc = "done" /\ start.rerun
  /\ counts.totalSkipped = 3 /\ counts.skippedCount = 2
  /\ imageData = start.imageData /\ DOMAIN imageData = {"p1", "p2"}

\* The image's entry in the loaded store was made from other bytes than the
\* file holds now.
Stale(img) ==
  /\ img.key \in DOMAIN LoadedCache
  /\ LoadedCache[img.key].hash # getFileHash(source[img.path])

\* C2 as claimed: every image whose bytes differ from those behind its cache
\* entry is counted as processed by the next run and its entry overwritten
\* with the new hash.
C2_StaleAlwaysProcessed ==
  InRun => \A img \in Visited :
    Stale(img) => /\ stdout[img.key] = "+"
                  /\ imageCache[img.key].hash = getFileHash(source[img.path])

\* C2 amended: such an image is never counted as skipped; when the new bytes
\* decode it is counted as processed and its entry overwritten with the new
\* hash, and when they do not the derivation fails and the old entry stays.
C2_StaleNeverSkipped ==
  InRun => \A img \in Visited :
    Stale(img) =>
      /\ stdout[img.key] # "."
      /\ Decodable(source[img.path]) =>
           /\ stdout[img.key] = "+"
           /\ imageCache[img.key].hash = getFileHash(source[img.path])
      /\ ~Decodable(source[img.path]) =>
           /\ stdout[img.key] = "error"
           /\ imageCache[img.key] = LoadedCache[img.key]

C2_Witness ==
  /\ pc = "done"
  /\ \E img \in Visited :
       /\ Stale(img) /\ img.dir \in DOMAIN start.dirs
       /\ stdout[img.key] = "+"
       /\ imageCache[img.key].hash = getFileHash(source[img.path])
       /\ cacheFile.json[img.key].hash # LoadedCache[img.key].hash

\* The image's entry in the loaded store matches the file, but its output
\* directory was gone when the run started.
OutputDeleted(img) ==
  /\ img.key \in DOMAIN LoadedCache
  /\ LoadedCache[img.key].hash = getFileHash(source[img.path])
  /\ img.dir \notin DOMAIN start.dirs

\* C3: an image whose output directory was deleted while its cache entry
\* still matches is derived again by the next run, not reused, in the
\* project collections and in the homepage collection.
C3_DeletedOutputReprocessed ==
  InRun => \A img \in Visited :
    OutputDeleted(img) => /\ stdout[img.key] = "+"
                          /\ img.dir \in DOMAIN dirs

C3_Witness ==
  /\ pc = "done"
  /\ \E img \in ProjectInventory : OutputDeleted(img) /\ stdout[img.key] = "+"
  /\ \E img \in HomepageInventory : OutputDeleted(img) /\ stdout[img.key] = "+"

\* C4 as claimed: needsProcessing(key, hash, outputDir) is true exactly when
\* the store has no entry for key, or the stored hash differs, or the
\* output directory is missing; stated for every image of the inventory
\* with its current hash and its expected output directory.
C4_NeedsProcessingContract ==
  InRun => \A img \in Inventory :
    needsProcessing(imageCache, img.key, getFileHash(source[img.path]), img.dir)
      = (\/ img.key \notin DOMAIN imageCache
         \/ imageCache[img.key].hash # getFileHash(source[img.path])
         \/ img.dir \notin DOMAIN dirs)

\* The rungs of the ladder that do not exceed width w.
UpTo(w) == {r \in Range(imageSizes) : r <= w}

\* The file names `<r>.<ext>` of a set of rungs.
EncodedNames(rungs) == {ToString(r) \o "." \o Formats[f] : r \in rungs, f \in DOMAIN Formats}

\* The files of directory d that were made from content b.
MadeFrom(d, b) == {n \in DOMAIN dirs[d] : dirs[d][n] = b}

\* C5: no upscaling.  For every image derived in this run, from a source of
\* width W, the recorded widths are exactly the rungs <= W (the sizes object
\* of a project image, the srcset of a homepage image), and the resized
\* files written from it are exactly those rungs' three encodings.
C5_NoUpscaling ==
  InRun => \A img \in Visited :
    stdout[img.key] = "+" =>
      LET b == source[img.path]
          data == imageCache[img.key].data
          ladder == SelectSeq(imageSizes, LAMBDA r : r \in UpTo(data.width))
      IN /\ data.width = Width(b)
         /\ MadeFrom(img.dir, b) \ {"original.jpg"} = EncodedNames(UpTo(Width(b)))
         /\ IF img \in ProjectInventory
              THEN data.sizes = UpTo(Width(b))
              ELSE \A f \in DOMAIN Formats :
                     data.srcset[Formats[f]] = HomepageSrcset(img.index, ladder, Formats[f])

C5_Witness ==
  /\ pc = "done"
  /\ \E img \in Visited \cap ProjectInventory :
       /\ stdout[img.key] = "+"
       /\ imageCache[img.key].data.width = 800
       /\ imageCache[img.key].data.sizes = {400, 800}
  /\ \E img \in Visited \cap ProjectInventory :
       /\ stdout[img.key] = "+"
       /\ imageCache[img.key].data.width = 300
       /\ imageCache[img.key].data.sizes = {}

\* The images of this run's inventory that sharp cannot decode.
Corrupt == {img \in Inventory : ~Decodable(source[img.path])}

\* The aggregated output has an entry for the image.
HasOutput(img) ==
  IF img \in ProjectInventory
    THEN img.slug \in DOMAIN imageData /\ img.index \in DOMAIN imageData[img.slug]
    ELSE img.index \in DOMAIN homepageImages

\* The run made no put for the key: the store holds for it what was loaded.
NoPut(key) ==
  /\ (key \in DOMAIN imageCache) = (key \in DOMAIN LoadedCache)
  /\ key \in DOMAIN imageCache => imageCache[key] = LoadedCache[key]

\* C6: fault isolation.  No exception leaves the two batches (the build can
\* only fail in a later stage), and when exactly one image of the run cannot
\* be decoded, every other image has an entry in the aggregated output while
\* the failing one has none and no put was made for it.
C6_FaultIsolation ==
  /\ pc = "failed" => "Build failed" \in errorLog
  /\ (InRun /\ BatchesFinished /\ Cardinality(Corrupt) = 1) =>
       \A img \in Inventory :
         IF img \in Corrupt
           THEN /\ ~HasOutput(img)
                /\ stdout[img.key] = "error"
                /\ NoPut(img.key)
           ELSE HasOutput(img)

C6_Witness ==
  /\ pc = "done"
  /\ Cardinality(Corrupt) = 1
  /\ Cardinality(Inventory) = 5
  /\ \E img \in Corrupt : stdout[img.key] = "error" /\ ~HasOutput(img)
  /\ \A img \in Inventory \ Corrupt : HasOutput(img)

\* The failed count of a logged count line; a line without one counts none.
FailedOf(r) == IF "failed" \in DOMAIN r THEN r.failed ELSE 0

\* C7 as claimed: the count line of every project accounts for each of its
\* images as processed, skipped or failed.
C7_CountsCoverCollection ==
  \A i \in DOMAIN reports :
    "total" \in DOMAIN reports[i] /\ reports[i].scope # "Homepage" =>
      reports[i].processed + reports[i].skipped + FailedOf(reports[i]) = reports[i].total

\* C8: persist is a no-op unless the store is dirty.  A finished run that
\* put no entry did not write the cache file, which holds what it held when
\* the run started; a finished run that put an entry, and whose write went
\* through, wrote the file once and it holds the whole in-memory mapping.
C8_PersistOnlyWhenDirty ==
  pc = "done" =>
    IF ~imageCacheUpdated
      THEN /\ cacheWrites = 0
           /\ cacheFile = start.cacheFile
           /\ \A img \in Inventory : NoPut(img.key)
      ELSE "Error saving image cache" \notin errorLog =>
             /\ cacheWrites = 1
             /\ cacheFile = [kind |-> "json", json |-> imageCache]

C8_Witness ==
  /\ pc = "done"
  /\ ~imageCacheUpdated
  /\ cacheWrites = 0
  /\ cacheFile.kind = "json"
  /\ "." \in Range(stdout) /\ "error" \in Range(stdout)

\* This run found no cache file, or one that does not parse.
ColdStart == start.cacheFile.kind \in {"absent", "corrupt"}

\* C9: cold start.  With the cache file absent or unparsable the store is
\* empty after load, load does not abort the build, and the run skips no
\* image: every decodable image it goes through is processed.
C9_ColdStart ==
  (InRun /\ ColdStart) =>
    /\ pc = "clean" => imageCache = <<>>
    /\ pc = "failed" => "Build failed" \in errorLog
    /\ counts.totalSkipped = 0 /\ counts.skippedCount = 0
    /\ \A img \in Visited :
         stdout[img.key] = IF Decodable(source[img.path]) THEN "+" ELSE "error"

C9_Witness ==
  /\ pc = "done"
  /\ builds > 1
  /\ ColdStart
  /\ \E img \in Inventory : img.dir \in DOMAIN start.dirs
  /\ counts.totalProcessed = 3 /\ counts.processedCount = 2

\* C10: a failed write of the cache file is logged and does not abort the
\* build: the run ends with exit status 0, the site generated and the output
\* directory of every image it processed or reused in place.
C10_SaveFailureNotFatal ==
  (pc \in {"done", "failed"} /\ "Error saving image cache" \in errorLog) =>
    /\ pc = "done"
    /\ exitStatus = 0
    /\ SiteFiles \subseteq distFiles
    /\ \A img \in Visited : stdout[img.key] \in {"+", "."} => img.dir \in DOMAIN dirs

C10_Witness ==
  /\ pc = "done"
  /\ exitStatus = 0
  /\ imageCacheUpdated
  /\ "Error saving image cache" \in errorLog
  /\ cacheFile # [kind |-> "json", json |-> imageCache]

\* The homepage cache keys.
HomepageKeys == {CacheKey("homepage", HomepageFiles[j]) : j \in DOMAIN HomepageFiles}

\* The contents sharp decodes.
Images == {b \in Bytes : Decodable(b)}

\* What processImage returns for each of them.
ProjectData == [b \in Images |-> processImage(b).results]

\* What the homepage loop stores for each of them, per homepage key.
HomepageData ==
  [key \in HomepageKeys |->
     LET file == CHOOSE f \in Range(HomepageFiles) : key = CacheKey("homepage", f)
     IN [b \in Images |-> processHomepageImage(b, parseInt(file)).results]]

\* What a derivation from content b stores as data under key.
KeyData(key, b) == IF key \in HomepageKeys THEN HomepageData[key][b] ELSE ProjectData[b]

\* The entry's data is what a derivation produces from bytes whose hash is
\* the entry's hash.
Intact(entry, key) ==
  \E b \in Images : /\ entry.hash = getFileHash(b)
                    /\ entry.data = KeyData(key, b)

\* C11: cache entry integrity.  In every state, also between two steps of a
\* run, every entry of the in-memory store and of the saved cache file holds
\* the data derived from the bytes its hash was taken from, so hash and data
\* are never replaced one without the other; and an image whose derivation
\* failed in this run has the entry, or the absence, the run loaded.
C11_EntryIntegrity ==
  /\ \A key \in DOMAIN imageCache : Intact(imageCache[key], key)
  /\ cacheFile.kind = "json" => \A key \in DOMAIN cacheFile.json : Intact(cacheFile.json[key], key)
  /\ InRun => \A img \in Visited : stdout[img.key] = "error" => NoPut(img.key)

C11_Witness ==
  /\ pc = "done"
  /\ \E img \in Visited :
       /\ Stale(img)
       /\ stdout[img.key] = "+"
       /\ imageCache[img.key].hash # LoadedCache[img.key].hash
       /\ imageCache[img.key].data # LoadedCache[img.key].data
       /\ Intact(LoadedCache[img.key], img.key)
       /\ cacheFile = [kind |-> "json", json |-> imageCache]

\* The landing images this run finds, each with its source path and the
\* output directory processFolder computes for it.
\* Source path and output directory of a landing file at a position.
LandingEntries ==
  [type \in Range(LandingTypes) |->
     [file \in Range(LandingFiles(type)) |->
        [i \in DOMAIN LandingFiles(type) |->
           [path |-> LandingInputPath(type, file), dir |-> LandingOutputDir(type, i)]]]]

LandingInventory ==
  UNION {LET type == LandingTypes[t]
             files == SelectSeq(LandingFiles(type),
                                LAMBDA f : source[LandingEntries[type][f][1].path] # NoFile)
         IN {LandingEntries[type][files[i]][i] : i \in DOMAIN files} : t \in DOMAIN LandingTypes}

\* The landing stage of this run is over.
LandingFinished == pc \in {"generatePages", "saveImageCache", "done", "failed"}

NothingProduced ==
  /\ \A slug \in DOMAIN imageData : DOMAIN imageData[slug] = {}
  /\ DOMAIN homepageImages = {}
  /\ landingImages.commercial = <<>>
  /\ landingImages.personal = <<>>

\* C13 as claimed: a run that ends with nothing produced by any collection
\* exits with a non-zero status, and a run that reaches its end with
\* something produced exits with status 0.
C13_ExitStatusReflectsOutput ==
  /\ (pc \in {"done", "failed"} /\ NothingProduced) => exitStatus # 0
  /\ (pc = "done" /\ ~NothingProduced) => exitStatus = 0

\* The error lines a collection's images can cause.
ErrorsOf(collection, files) ==
  {"Error processing " \o CacheKey(collection, files[j]) : j \in DOMAIN files}

\* C14: a collection without images.  A project without images gets no
\* entry in imageData, no count line and no error line; a missing or empty
\* homepage folder leaves homepageImages empty with both its counters at
\* zero and no error line.  Neither stops the run: it fails in neither batch,
\* and every image of the other collections is gone through.
C14_EmptyCollectionSkipped ==
  (InRun /\ BatchesFinished) =>
    /\ \A i \in DOMAIN projects :
         ~projects[i].hasImages =>
           /\ projects[i].slug \notin DOMAIN imageData
           /\ \A k \in DOMAIN reports : reports[k].scope # projects[i].slug
           /\ ErrorsOf(projects[i].slug, OriginalFiles(projects[i].slug)) \cap errorLog = {}
    /\ (~homepageDir \/ numberedImages = <<>>) =>
         /\ DOMAIN homepageImages = {}
         /\ counts.processedCount = 0 /\ counts.skippedCount = 0
         /\ ErrorsOf("homepage", HomepageFiles) \cap errorLog = {}
    /\ \A img \in Inventory : img.key \in DOMAIN stdout
    /\ LandingFinished =>
         \A img \in LandingInventory :
           Decodable(source[img.path]) => img.path \in derived
    /\ pc = "failed" => "Build failed" \in errorLog

C14_Witness ==
  /\ pc = "done" /\ exitStatus = 0
  /\ ~homepageDir
  /\ \E i \in DOMAIN projects : ~projects[i].hasImages
  /\ \E img \in ProjectInventory : stdout[img.key] = "+"
  /\ reports[Len(reports)].scope = "Landing"

\* The source path of a pending derivation's image.
FlightPath(t) ==
  IF t.collection = "homepage" THEN HomepageInputPath(t.file)
  ELSE ProjectInputPath(t.collection, t.file)

\* The position of a pending derivation's image in its collection's loop.
PositionOf(t) ==
  IF t.collection = "homepage"
    THEN CHOOSE j \in DOMAIN numberedImages : numberedImages[j] = t.file
    ELSE CHOOSE j \in DOMAIN projects[pi].images : projects[pi].images[j].file = t.file

\* The cache keys of the collection the loop is in, in loop order.
LoopKeys ==
  IF pc = "homepageImages"
    THEN [j \in DOMAIN numberedImages |-> CacheKey("homepage", numberedImages[j])]
    ELSE [j \in DOMAIN projects[pi].images |->
            CacheKey(projects[pi].slug, projects[pi].images[j].file)]

\* C15: strictly sequential processing.  At most one derivation is pending
\* at any time; while one is pending, every image before it in its
\* collection is settled (reused, processed or failed) and no image after it
\* has been started; and every entry the run has put into the store belongs
\* to an image whose derivation has completed.
C15_Sequential ==
  /\ Cardinality(inflight) <= 1
  /\ inflight # {} => pc \in {"projectImages", "homepageImages"}
  /\ \A t \in inflight :
       /\ t.collection = (IF pc = "homepageImages" THEN "homepage" ELSE projects[pi].slug)
       /\ PositionOf(t) = ii - 1
       /\ \A j \in DOMAIN LoopKeys : (j < PositionOf(t)) = (LoopKeys[j] \in DOMAIN stdout)
       /\ FlightPath(t) \notin derived
  /\ InRun => \A key \in DOMAIN imageCache :
       ~(key \in DOMAIN LoadedCache /\ imageCache[key] = LoadedCache[key]) =>
         key \in DOMAIN stdout /\ stdout[key] = "+"

C15_Witness ==
  /\ pc = "projectImages"
  /\ \E t \in inflight :
       /\ t.collection = "p1" /\ t.file = "b.jpg"
       /\ "p1/a.jpg" \in DOMAIN stdout
       /\ "p1/b.jpg" \notin DOMAIN stdout

\* C16: the cache file is written at most once per run and only at the end.
\* Until the run has come to its last step the file is what it was when the
\* run started; when it differs, the run has finished with exit status 0
\* after every image was gone through and the site generated; a run that
\* failed has left the file alone.
C16_WrittenOnceAtEnd ==
  InRun =>
    /\ cacheWrites <= 1
    /\ pc # "done" => (cacheFile = start.cacheFile /\ cacheWrites = 0)
    /\ cacheFile # start.cacheFile =>
         /\ pc = "done" /\ exitStatus = 0
         /\ imageCacheUpdated
         /\ SiteFiles \subseteq distFiles
         /\ \A img \in Inventory : img.key \in DOMAIN stdout

C16_Witness ==
  /\ pc = "done"
  /\ cacheWrites = 1
  /\ start.cacheFile.kind = "json"
  /\ cacheFile # start.cacheFile
  /\ cacheFile = [kind |-> "json", json |-> imageCache]
  /\ Cardinality({key \in DOMAIN stdout : stdout[key] = "+"}) = 1

\* The three files of one width.
Siblings(w) == {ToString(w) \o ".avif", ToString(w) \o ".webp", ToString(w) \o ".jpg"}

HasOriginal(d, b) ==
  /\ d \in DOMAIN dirs
  /\ "original.jpg" \in DOMAIN dirs[d]
  /\ dirs[d]["original.jpg"] = b

DuplicateWarning(file, slug, first) ==
  "Duplicate filename: " \o file \o " in " \o slug \o " (also in " \o first \o ")"

\* The projects whose loop body this run has entered.
Begun == {i \in DOMAIN projects : projects[i].slug \in DOMAIN imageData}

\* C19: the two checks are advisory.  They raise their warnings (a file name
\* met in an earlier project, a source narrower than 1200px), and what the
\* run does with a project image is settled by the store, the hash, the
\* output directory and whether the file decodes, whatever was warned: it is
\* reused exactly when the reuse test holds, otherwise processed when it
\* decodes and failed when it does not; a finished run exits with 0.
C19_ChecksAreAdvisory ==
  InRun =>
    /\ \A i \in Begun, j \in Begun :
         i < j => \A f \in {projects[i].images[k].file : k \in DOMAIN projects[i].images}
                         \cap {projects[j].images[k].file : k \in DOMAIN projects[j].images} :
                    DuplicateWarning(f, projects[j].slug, projects[i].slug) \in warnings
    /\ \A img \in Visited \cap ProjectInventory :
         LET b == source[img.path]
         IN /\ (Decodable(b) /\ Width(b) < 1200) =>
                 ("Warning: " \o img.key \o " is too narrow") \in warnings
            /\ stdout[img.key] =
                 IF CacheHit(LoadedCache, start.dirs, img.key, getFileHash(b), img.dir) THEN "."
                 ELSE IF Decodable(b) THEN "+" ELSE "error"
            /\ stdout[img.key] = "+" =>
                 imageCache[img.key] = [hash |-> getFileHash(b), data |-> processImage(b).results]
    /\ pc = "done" => exitStatus = 0

C19_Witness ==
  /\ pc = "done" /\ exitStatus = 0
  /\ DuplicateWarning("a.jpg", "p2", "p1") \in warnings
  /\ "Warning: p2/a.jpg is too narrow" \in warnings
  /\ stdout["p1/a.jpg"] = "+"
  /\ stdout["p2/a.jpg"] = "+"

\* C20 as claimed: every project image a run counts as skipped has, in the
\* output directory of its index, the resized files of its widths made from
\* the bytes its source file holds.
C20_SkippedOutputIsCurrent ==
  InRun => \A img \in Visited \cap ProjectInventory :
    stdout[img.key] = "." =>
      \A n \in EncodedNames(UpTo(Width(source[img.path]))) :
        /\ n \in DOMAIN dirs[img.dir]
        /\ dirs[img.dir][n] = source[img.path]

\* C30 as claimed: for every homepage image this run derived, the fallback
\* src of its entry is /images/homepage/<num>/<w>.jpg where w is the largest
\* ladder width not exceeding the source width, and <w>.jpg is among the
\* files written to the image's output directory.
C30_FallbackSrcWritten ==
  InRun => \A img \in Visited \cap HomepageInventory :
    (stdout[img.key] = "+" /\ img.index \in DOMAIN homepageImages) =>
      \E w \in UpTo(Width(source[img.path])) :
        /\ \A v \in UpTo(Width(source[img.path])) : v <= w
        /\ homepageImages[img.index].src
             = "/images/homepage/" \o ToString(img.index) \o "/" \o ToString(w) \o ".jpg"
        /\ img.dir \in DOMAIN dirs
        /\ ToString(w) \o ".jpg" \in DOMAIN dirs[img.dir]

\* =============================================== Stripe webhook function
\* What the webhook's steps leave alone.
webhookFrame == <<buildVars, checkoutVars, swVars, watchVars, cartVars>>

\* Stripe, or anyone else, sends a request to the function's URL.  One
\* invocation is followed at a time.
Deliver(req) ==
  /\ whPc \in {"idle", "returned"}
  /\ deliveries < MaxDeliveries
  /\ deliveries' = deliveries + 1
  /\ event' = req
  /\ whPc' = "handler"
  /\ trace' = <<>>
  /\ response' = NoResponse
  /\ console' = {}
  /\ UNCHANGED <<env, labOrders, webhookFrame>>

\* handler, lines 16-18: anything but POST is turned away.
methodNotAllowed ==
  /\ whPc = "handler"
  /\ event.httpMethod # "POST"
  /\ response' = 405
  /\ whPc' = "returned"
  /\ UNCHANGED <<env, event, trace, console, labOrders, deliveries, webhookFrame>>

\* handler, lines 20-38: the signature header is read and the event
\* constructed; a body that does not verify is answered with 400.
verifySignature ==
  /\ whPc = "handler"
  /\ event.httpMethod = "POST"
  /\ IF constructEvent(event)
       THEN /\ trace' = trace \o <<"stripe-signature", "constructEvent">>
            /\ whPc' = "switch"
            /\ UNCHANGED <<response, console>>
       ELSE /\ trace' = trace \o <<"stripe-signature">>
            /\ console' = console \cup {"Webhook signature verification failed"}
            /\ response' = 400
            /\ whPc' = "returned"
  /\ UNCHANGED <<env, event, labOrders, deliveries, webhookFrame>>

\* handler, lines 41-68: the switch on the event type.
switchOnType ==
  /\ whPc = "switch"
  /\ trace' = Append(trace, "switch")
  /\ IF Fulfils(event.type, event.payment_status)
       THEN /\ whPc' = "handleSuccessfulPayment"
            /\ UNCHANGED console
       ELSE /\ whPc' = "acknowledge"
            /\ console' = console \cup
                 (CASE event.type = "checkout.session.completed" -> {}
                    [] event.type = "checkout.session.async_payment_failed" ->
                         {"Payment failed for session: " \o event.id}
                    [] OTHER -> {"Unhandled event type: " \o event.type})
  /\ UNCHANGED <<env, event, response, labOrders, deliveries, webhookFrame>>

\* handleSuccessfulPayment, lines 81-121 and 135-137: the order record is
\* built from the session; without CREATIVEHUB_API_KEY the print lab is
\* not called.
handleSuccessfulPayment ==
  /\ whPc = "handleSuccessfulPayment"
  /\ trace' = trace \o <<"handleSuccessfulPayment", "order">>
  /\ IF env.CREATIVEHUB_API_KEY
       THEN /\ whPc' = "createPrintspaceOrder"
            /\ UNCHANGED console
       ELSE /\ whPc' = "acknowledge"
            /\ console' = console \cup {"CREATIVEHUB_API_KEY not set - skipping Printspace order",
                                        "Order processed successfully"}
  /\ UNCHANGED <<env, event, response, labOrders, deliveries, webhookFrame>>

\* createPrintspaceOrder (printspace.js, lines 84-172) inside the try of
\* handleSuccessfulPayment (lines 122-134): throws when no item has a SKU;
\* otherwise POSTs the order with externalReference = session.id, which the
\* lab accepts (ok) or rejects.
createPrintspaceOrder(ok) ==
  /\ whPc = "createPrintspaceOrder"
  /\ LET orderItems == labItems(orderItemsOf(event.order_items), env.skus)
         failure == catchOrderError(IF DOMAIN orderItems = {} THEN "No valid items to order"
                                    ELSE "Creativehub API error")
     IN IF DOMAIN orderItems = {}
          THEN /\ trace' = Append(trace, "createPrintspaceOrder")
               /\ whPc' = failure.whPc
               /\ response' = failure.response
               /\ console' = console \cup failure.log
               /\ UNCHANGED labOrders
          ELSE /\ trace' = trace \o <<"createPrintspaceOrder", "POST /v1/orders">>
               /\ IF ok
                    THEN /\ labOrders' = [labOrders EXCEPT ![event.id] = @ + 1]
                         /\ whPc' = "acknowledge"
                         /\ console' = console \cup {"Printspace order created",
                                                     "Order processed successfully"}
                         /\ UNCHANGED response
                    ELSE /\ whPc' = failure.whPc
                         /\ response' = failure.response
                         /\ console' = console \cup failure.log
                         /\ UNCHANGED labOrders
  /\ UNCHANGED <<env, event, deliveries, webhookFrame>>

\* handler, lines 70-74: the event is acknowledged.
acknowledge ==
  /\ whPc = "acknowledge"
  /\ response' = 200
  /\ whPc' = "returned"
  /\ UNCHANGED <<env, event, trace, console, labOrders, deliveries, webhookFrame>>

\* A deployment of the function, with or without the print lab's key and
\* with or without SKUs filled in.
WebhookInit ==
  /\ NoBuild
  /\ env \in [CREATIVEHUB_API_KEY : BOOLEAN, skus : BOOLEAN]
  /\ WebhookIdle
  /\ CheckoutIdle
  /\ SwIdle
  /\ WatchIdle
  /\ CartIdle

WebhookNext ==
  \/ \E req \in Requests : Deliver(req)
  \/ methodNotAllowed
  \/ verifySignature
  \/ switchOnType
  \/ handleSuccessfulPayment
  \/ \E ok \in BOOLEAN : createPrintspaceOrder(ok)
  \/ acknowledge

WebhookSpec == WebhookInit /\ [][WebhookNext]_vars

\* handler() has returned (or thrown) for the request in `event`.
Returned == whPc = "returned"

\* The steps that act on the event.
Handling == {"switch", "handleSuccessfulPayment", "order", "createPrintspaceOrder", "POST /v1/orders"}

\* C21: every step that acts on the event comes after a successful
\* constructEvent; a POST whose signature does not verify gets 400 and no
\* order is built or sent to the lab; a request that is not a POST gets 405
\* and its signature header is never read.
C21_VerifyBeforeHandling ==
  /\ \A i \in DOMAIN trace :
       trace[i] \in Handling => \E j \in 1..(i - 1) : trace[j] = "constructEvent"
  /\ (\E i \in DOMAIN trace : trace[i] = "constructEvent") => event.signature = "good"
  /\ (Returned /\ event.httpMethod = "POST" /\ event.signature # "good") =>
       /\ response = 400
       /\ Range(trace) \cap Handling = {}
  /\ (Returned /\ event.httpMethod # "POST") =>
       /\ response = 405
       /\ trace = <<>>

C21_Witness ==
  /\ Returned
  /\ event.httpMethod = "POST" /\ event.signature = "forged"
  /\ event.type = "checkout.session.completed" /\ event.payment_status = "paid"
  /\ env.CREATIVEHUB_API_KEY /\ env.skus
  /\ response = 400
  /\ trace = <<"stripe-signature">>

\* C22: handleSuccessfulPayment runs only for a checkout.session.completed
\* event whose session is paid or for an async_payment_succeeded event.
C22_OnlyPaidFulfilled ==
  (\E i \in DOMAIN trace : trace[i] = "handleSuccessfulPayment") =>
    \/ event.type = "checkout.session.completed" /\ event.payment_status = "paid"
    \/ event.type = "checkout.session.async_payment_succeeded"

C22_Witness ==
  /\ Returned /\ response = 200
  /\ event.type = "checkout.session.completed" /\ event.payment_status = "unpaid"
  /\ trace = <<"stripe-signature", "constructEvent", "switch">>

\* C23: a request whose event verified is answered with 200 whatever its
\* type, and a print-lab order that could not be created is logged.
C23_AlwaysAcknowledged ==
  (Returned /\ (\E i \in DOMAIN trace : trace[i] = "constructEvent")) =>
    /\ response = 200
    /\ ("createPrintspaceOrder" \in Range(trace) /\ "Printspace order created" \notin console) =>
         \E m \in {"No valid items to order", "Creativehub API error"} :
           ("Failed to create Printspace order: " \o m) \in console

C23_Witness ==
  /\ Returned /\ response = 200
  /\ trace[Len(trace)] = "POST /v1/orders"
  /\ "Failed to create Printspace order: Creativehub API error" \in console

checkoutFrame == <<buildVars, webhookVars, env, swVars, watchVars, cartVars>>

\* The print store page, or anyone else, sends a request.
PostCheckout(req) ==
  /\ coPc = "idle"
  /\ coRequest' = req
  /\ coPc' = "handler"
  /\ UNCHANGED <<items, lineItems, coResponse, stripeSessions, checkoutFrame>>

\* handler, lines 74-80: only POST is allowed.
checkoutMethodNotAllowed ==
  /\ coPc = "handler"
  /\ coRequest.httpMethod # "POST"
  /\ coResponse' = 405
  /\ coPc' = "returned"
  /\ UNCHANGED <<coRequest, items, lineItems, stripeSessions, checkoutFrame>>

\* handler, lines 82-103: the body is parsed and items taken from either
\* format; any other body is answered with 400.
readItems ==
  /\ coPc = "handler"
  /\ coRequest.httpMethod = "POST"
  /\ IF coRequest.format \in {"cart", "single"}
       THEN /\ items' = coRequest.items
            /\ coPc' = "validate"
            /\ UNCHANGED coResponse
       ELSE /\ coResponse' = 400
            /\ coPc' = "returned"
            /\ UNCHANGED items
  /\ UNCHANGED <<coRequest, lineItems, stripeSessions, checkoutFrame>>

\* One pass of `for (const item of items)`, lines 105-151: the print and the
\* size are looked up; a falsy lookup returns 400, a property read on
\* undefined throws into the catch of lines 210-216 (500); otherwise the
\* line item is pushed.
validateItem ==
  /\ coPc = "validate"
  /\ Len(lineItems) < Len(items)
  /\ LET item == items[Len(lineItems) + 1]
         print == Get(PRINT_CATALOG, item.printId)
         sizeData == IF print.kind = "own" THEN Get(print.value.sizes, item.size)
                     ELSE [kind |-> "TypeError"]
     IN CASE print.kind = "undefined" ->
               /\ coResponse' = 400
               /\ coPc' = "returned"
               /\ UNCHANGED lineItems
          [] sizeData.kind = "TypeError" ->
               /\ coResponse' = 500
               /\ coPc' = "returned"
               /\ UNCHANGED lineItems
          [] sizeData.kind = "undefined" ->
               /\ coResponse' = 400
               /\ coPc' = "returned"
               /\ UNCHANGED lineItems
          [] OTHER ->
               /\ lineItems' = Append(lineItems,
                    [print_id |-> item.printId, size |-> item.size, quantity |-> item.quantity,
                     unit_amount |-> IF sizeData.kind = "own" THEN sizeData.value.price ELSE -1])
               /\ UNCHANGED <<coResponse, coPc>>
  /\ UNCHANGED <<coRequest, items, stripeSessions, checkoutFrame>>

\* handler, lines 153-216: stripe.checkout.sessions.create with the line
\* items; the session's url is returned with 200, and a rejected or failed
\* call ends in the catch (500).
createSession(reachable) ==
  /\ coPc = "validate"
  /\ Len(lineItems) = Len(items)
  /\ IF reachable /\ StripeAccepts(lineItems)
       THEN /\ stripeSessions' = Append(stripeSessions, lineItems)
            /\ coResponse' = 200
       ELSE /\ coResponse' = 500
            /\ UNCHANGED stripeSessions
  /\ coPc' = "returned"
  /\ UNCHANGED <<coRequest, items, lineItems, checkoutFrame>>

CheckoutInit ==
  /\ NoBuild
  /\ SiteIdle

CheckoutNext ==
  \/ \E req \in CheckoutRequests : PostCheckout(req)
  \/ checkoutMethodNotAllowed
  \/ readItems
  \/ validateItem
  \/ \E reachable \in BOOLEAN : createSession(reachable)

CheckoutSpec == CheckoutInit /\ [][CheckoutNext]_vars

\* An item naming a print of the catalogue and a size that print has.
ValidItem(item) ==
  /\ item.printId \in DOMAIN PRINT_CATALOG
  /\ item.size \in DOMAIN PRINT_CATALOG[item.printId].sizes

\* C25 as claimed: a cart with an item that is not valid, wherever it
\* stands, is answered with 400 and no session is created; a session is
\* created only for a cart whose items are all valid.
C25_AllOrNothing ==
  (coPc = "returned" /\ coRequest.format \in {"cart", "single"}) =>
    /\ (\E i \in DOMAIN coRequest.items : ~ValidItem(coRequest.items[i])) =>
         (coResponse = 400 /\ stripeSessions = <<>>)
    /\ stripeSessions # <<>> => \A i \in DOMAIN coRequest.items : ValidItem(coRequest.items[i])

\* ========================================================= service worker
\* What the service worker's steps leave alone.
swFrame == <<buildVars, webhookVars, env, checkoutVars, watchVars, cartVars>>

\* A page requests an image and the fetch listener (lines 93-110) answers
\* with cacheFirstWithRuntimeCache: the next image not yet asked for, or
\* the first one again.
onFetch(h, url) ==
  /\ handlers[h].pc = "idle"
  /\ requested < Viewed + MaxImageRequests
  /\ url \in {1, requested + 1}
  /\ requested' = IF url > requested THEN url ELSE requested
  /\ handlers' = [handlers EXCEPT ![h] = [NoHandler EXCEPT !.pc = "match", !.url = url]]
  /\ UNCHANGED <<swCache, swFrame>>

\* await caches.match(request), lines 189-193: a cached response is returned.
cachesMatch(h) ==
  /\ handlers[h].pc = "match"
  /\ handlers' = [handlers EXCEPT ![h] =
       IF \E j \in DOMAIN swCache : swCache[j] = handlers[h].url
       THEN NoHandler ELSE [@ EXCEPT !.pc = "fetch"]]
  /\ UNCHANGED <<swCache, requested, swFrame>>

\* await fetch(request), lines 195-199 and 216-222: a response that is not
\* ok is returned uncached; a failed fetch is answered with 503.
networkFetch(h, ok) ==
  /\ handlers[h].pc = "fetch"
  /\ handlers' = [handlers EXCEPT ![h] = IF ok THEN [@ EXCEPT !.pc = "keys"] ELSE NoHandler]
  /\ UNCHANGED <<swCache, requested, swFrame>>

\* await caches.open, await cache.keys() and the size test, lines 200-204.
cacheKeys(h) ==
  /\ handlers[h].pc = "keys"
  /\ handlers' = [handlers EXCEPT ![h] =
       [@ EXCEPT !.keys = swCache,
                 !.i = 0,
                 !.pc = IF Len(swCache) >= MAX_IMAGE_CACHE_SIZE THEN "trim" ELSE "put"]]
  /\ UNCHANGED <<swCache, requested, swFrame>>

\* One pass of the trimming loop, lines 207-209: await cache.delete(keys[i])
\* on the keys as they were read.
cacheDelete(h) ==
  /\ handlers[h].pc = "trim"
  /\ LET me == handlers[h]
     IN IF me.i < deleteCount /\ me.i < Len(me.keys)
          THEN /\ swCache' = CacheDelete(swCache, me.keys[me.i + 1])
               /\ handlers' = [handlers EXCEPT ![h].i = @ + 1]
          ELSE /\ handlers' = [handlers EXCEPT ![h].pc = "put"]
               /\ UNCHANGED swCache
  /\ UNCHANGED <<requested, swFrame>>

\* cache.put(request, networkResponse.clone()), line 212, and the return.
swCachePut(h) ==
  /\ handlers[h].pc = "put"
  /\ swCache' = Append(CacheDelete(swCache, handlers[h].url), handlers[h].url)
  /\ handlers' = [handlers EXCEPT ![h] = NoHandler]
  /\ UNCHANGED <<requested, swFrame>>

\* The service worker of a visitor who has viewed `Viewed` images so far.
SwInit ==
  /\ NoBuild
  /\ env = [CREATIVEHUB_API_KEY |-> FALSE, skus |-> FALSE]
  /\ WebhookIdle
  /\ CheckoutIdle
  /\ swCache = [j \in 1..Viewed |-> j]
  /\ handlers = [h \in 1..MaxHandlers |-> NoHandler]
  /\ requested = Viewed
  /\ WatchIdle
  /\ CartIdle

SwNext ==
  \/ \E h \in 1..MaxHandlers : \E url \in 1..(Viewed + MaxImageRequests) : onFetch(h, url)
  \/ \E h \in 1..MaxHandlers : cachesMatch(h)
  \/ \E h \in 1..MaxHandlers : \E ok \in BOOLEAN : networkFetch(h, ok)
  \/ \E h \in 1..MaxHandlers : cacheKeys(h)
  \/ \E h \in 1..MaxHandlers : cacheDelete(h)
  \/ \E h \in 1..MaxHandlers : swCachePut(h)

SwSpec == SwInit /\ [][SwNext]_vars

\* C26 as claimed: the image cache never holds more than
\* MAX_IMAGE_CACHE_SIZE entries.
C26_CacheBound == Len(swCache) <= MAX_IMAGE_CACHE_SIZE

\* ============================================================= watch mode
\* What watch mode's steps leave alone.
watchFrame == <<buildVars, webhookVars, env, checkoutVars, swVars, cartVars>>

\* The watcher reports a file event (lines 327-354): a change under
\* src/css or src/js calls the CSS or JS handler, anything else the full
\* one.  The call re-arms that handler's debounce timer (lines 71-77).
fileEvent(t) ==
  /\ changes < MaxChanges
  /\ changes' = changes + 1
  /\ timeoutId' = [timeoutId EXCEPT ![t] = TRUE]
  /\ owed' = IF running # {} THEN owed \cup {t} ELSE owed
  /\ UNCHANGED <<isBuilding, pendingBuildType, running, watchFrame>>

\* A debounce timer fires and the handler runs up to its await (lines
\* 247-254, 274-281, 288-295): during a build it notes its type in
\* pendingBuildType and returns, otherwise it starts its build.
timerFires(t) ==
  /\ timeoutId[t]
  /\ timeoutId' = [timeoutId EXCEPT ![t] = FALSE]
  /\ IF isBuilding
       THEN /\ pendingBuildType' = t
            /\ owed' = owed \cup {t}
            /\ UNCHANGED <<isBuilding, running>>
       ELSE /\ isBuilding' = TRUE
            /\ running' = running \cup {t}
            /\ owed' = owed \ {t}
            /\ UNCHANGED pendingBuildType
  /\ UNCHANGED <<changes, watchFrame>>

\* runFullBuild settles in handleFullBuild (lines 254-271): resolved or
\* rejected, isBuilding is cleared and a pending type handed on.
fullBuildEnds ==
  /\ "full" \in running
  /\ running' = running \ {"full"}
  /\ isBuilding' = FALSE
  /\ pendingBuildType' = Null
  /\ timeoutId' = afterFullBuild(pendingBuildType, timeoutId)
  /\ UNCHANGED <<changes, owed, watchFrame>>

\* rebuildCss or rebuildJs settles in its handler (lines 281-285,
\* 295-299): isBuilding is cleared; pendingBuildType is not looked at.
assetBuildEnds(t) ==
  /\ t \in {"css", "js"}
  /\ t \in running
  /\ running' = running \ {t}
  /\ isBuilding' = FALSE
  /\ UNCHANGED <<pendingBuildType, timeoutId, changes, owed, watchFrame>>

\* The initial build of --serve settles (lines 379-388); isBuilding was
\* not set for it and is not touched.
initialBuildEnds ==
  /\ "initial" \in running
  /\ running' = running \ {"initial"}
  /\ UNCHANGED <<isBuilding, pendingBuildType, timeoutId, changes, owed, watchFrame>>

\* watch() with the watcher set up: started with --serve, the initial
\* runFullBuild is under way; without, nothing is.
WatchInit ==
  /\ NoBuild
  /\ env = [CREATIVEHUB_API_KEY |-> FALSE, skus |-> FALSE]
  /\ WebhookIdle
  /\ CheckoutIdle
  /\ SwIdle
  /\ isBuilding = FALSE
  /\ pendingBuildType = Null
  /\ timeoutId = [t \in BuildTypes |-> FALSE]
  /\ running \in {{}, {"initial"}}
  /\ changes = 0
  /\ owed = {}
  /\ CartIdle

WatchNext ==
  \/ \E t \in BuildTypes : fileEvent(t)
  \/ \E t \in BuildTypes : timerFires(t)
  \/ fullBuildEnds
  \/ \E t \in BuildTypes : assetBuildEnds(t)
  \/ initialBuildEnds

WatchSpec == WatchInit /\ [][WatchNext]_vars

\* Timers fire and builds end; file events come as they may.
WatchFairSpec ==
  /\ WatchSpec
  /\ \A t \in BuildTypes : WF_vars(timerFires(t))
  /\ WF_vars(fullBuildEnds)
  /\ \A t \in BuildTypes : WF_vars(assetBuildEnds(t))
  /\ WF_vars(initialBuildEnds)

\* C27 as claimed: at most one build runs at a time, the initial build of
\* --serve included.
C27_OneBuildAtATime == Cardinality(running) <= 1

\* C28 as claimed: a build type asked for while another build runs is
\* eventually started.
C28_NoRequestLost == \A t \in BuildTypes : (t \in owed) ~> (t \notin owed)

\* ============================================================ print store
\* What the cart's operations leave alone.
cartFrame == <<buildVars, webhookVars, env, checkoutVars, swVars, watchVars>>

\* saveCart: localStorage.setItem('jc-print-cart', JSON.stringify(cart)).
saveCart(c) == [set |-> TRUE, text |-> JSONstringify(c)]

\* addToCart(print, size), lines 56-81.
addToCart(print, size) ==
  /\ cartOps < MaxCartOps
  /\ LET existingIndex == findIndex(cart, print, size)
         added == IF existingIndex >= 1
                  THEN [cart EXCEPT ![existingIndex].quantity = @ + 1]
                  ELSE Append(cart, [printId |-> print.id, title |-> print.title,
                                     sizeName |-> size.name, price |-> size.price,
                                     quantity |-> 1])
     IN /\ cart' = added
        /\ localStorage' = saveCart(added)
  /\ cartOps' = cartOps + 1
  /\ lastOp' = "addToCart"
  /\ UNCHANGED cartFrame

\* removeFromCart(index), lines 86-89, from the remove button of a listed
\* item (index is 0-based in the page, 1-based here).
removeFromCart(index) ==
  /\ cartOps < MaxCartOps
  /\ index \in DOMAIN cart
  /\ cart' = splice(cart, index)
  /\ localStorage' = saveCart(splice(cart, index))
  /\ cartOps' = cartOps + 1
  /\ lastOp' = "removeFromCart"
  /\ UNCHANGED cartFrame

\* updateQuantity(index, delta), lines 94-101, from the + and - buttons of
\* a listed item.
updateQuantity(index, delta) ==
  /\ cartOps < MaxCartOps
  /\ index \in DOMAIN cart
  /\ LET changed == [cart EXCEPT ![index].quantity = @ + delta]
         left == IF RemovesAt(changed[index].quantity) THEN splice(changed, index) ELSE changed
     IN /\ cart' = left
        /\ localStorage' = saveCart(left)
  /\ cartOps' = cartOps + 1
  /\ lastOp' = "updateQuantity"
  /\ UNCHANGED cartFrame

CartInit ==
  /\ NoBuild
  /\ SiteIdle

CartNext ==
  \/ \E id \in DOMAIN printData : \E n \in DOMAIN printData[id].sizes :
       addToCart(printData[id], printData[id].sizes[n])
  \/ \E index \in 1..MaxCartOps : removeFromCart(index)
  \/ \E index \in 1..MaxCartOps : \E delta \in {1, -1} : updateQuantity(index, delta)

CartSpec == CartInit /\ [][CartNext]_vars

\* The quantities of a cart added up, in no particular order.
RECURSIVE SumQuantities(_, _)
SumQuantities(c, D) ==
  IF D = {} THEN 0
  ELSE LET i == CHOOSE j \in D : TRUE IN c[i].quantity + SumQuantities(c, D \ {i})

\* The cart loadCart would read back from localStorage.
StoredCart == IF localStorage.set THEN JSONparse(localStorage.text) ELSE <<>>

\* C29: every item has quantity >= 1, no two items have the same print and
\* size, getCartItemCount is the sum of the quantities, and localStorage
\* holds the cart as it is in memory.
C29_CartInvariants ==
  /\ \A i \in DOMAIN cart : cart[i].quantity >= 1
  /\ \A i, j \in DOMAIN cart :
       (cart[i].printId = cart[j].printId /\ cart[i].sizeName = cart[j].sizeName) => i = j
  /\ getCartItemCount(cart) = SumQuantities(cart, DOMAIN cart)
  /\ StoredCart = cart

C29_Witness ==
  /\ lastOp = "updateQuantity"
  /\ cartOps = 4
  /\ Len(cart) = 1
  /\ cart[1].quantity = 2
  /\ cart[1].printId = "print-002"
  /\ localStorage.set
====
